---------------------------- MODULE Spec2Model ----------------------------
(***************************************************************************)
(* ARIA role, hidden-state and accessible-name engine of roleUtils         *)
(* (src/docs/src/docker.md, lines 1817-2671), with its pass-scoped caches. *)
(*                                                                         *)
(* A string is a sequence of atoms.  An atom is one whitespace character   *)
(* (" ", "\t", "\n", "\r", "nbsp" for U+00A0), a quote character, or a     *)
(* word: a non-empty run of non-whitespace characters that is never split  *)
(* or merged by the engine (the engine inspects characters only to decide  *)
(* whether they are whitespace, a quote, or a whole token).                *)
(*                                                                         *)
(* The document is the value of the variable dom: a function from node     *)
(* numbers to node records.  Node numbers follow document order inside     *)
(* each tree scope.  Everything the engine reads through the DOM and       *)
(* through ./domUtils (computed style, labels, shadow roots, slots) is a   *)
(* field of the node record.                                               *)
(***************************************************************************)
EXTENDS Integers, Sequences, FiniteSets, TLC

VARIABLES
  dom,                        \* the rendered document tree
  cachesCounter,              \* let cachesCounter
  cacheAccessibleName,        \* let cacheAccessibleName
  cacheAccessibleNameHidden,  \* let cacheAccessibleNameHidden
  cacheIsHidden,              \* let cacheIsHidden
  result,                     \* what the last call of the engine returned
  dirty,                      \* history: cachesCounter at the last change of the tree in the open scope, 0 for none
  firstInScope,               \* history: per (includeHidden, node) the first name returned in the open scope
  prevPass                    \* history: the name call right before the scope that closed last was closed

vars == <<dom, cachesCounter, cacheAccessibleName, cacheAccessibleNameHidden,
          cacheIsHidden, result, dirty, firstInScope, prevPass>>

-----------------------------------------------------------------------------
(* Strings *)

Whitespace == {" ", "\t", "\n", "\r", "nbsp"}

IsWs(c) == c \in Whitespace

RECURSIVE TrimLeft(_)
TrimLeft(s) == IF s # <<>> /\ IsWs(Head(s)) THEN TrimLeft(Tail(s)) ELSE s

RECURSIVE TrimRight(_)
TrimRight(s) ==
  IF s # <<>> /\ IsWs(s[Len(s)]) THEN TrimRight(SubSeq(s, 1, Len(s) - 1)) ELSE s

\* String.prototype.trim
Trim(s) == TrimRight(TrimLeft(s))

\* s.replace(/\r\n/g, '\n')
RECURSIVE ReplaceCrLf(_)
ReplaceCrLf(s) ==
  IF s = <<>> THEN <<>>
  ELSE IF Len(s) >= 2 /\ s[1] = "\r" /\ s[2] = "\n"
       THEN <<"\n">> \o ReplaceCrLf(SubSeq(s, 3, Len(s)))
       ELSE <<Head(s)>> \o ReplaceCrLf(Tail(s))

\* s.replace(/\u00A0/g, ' ')
ReplaceNbsp(s) == [i \in 1..Len(s) |-> IF s[i] = "nbsp" THEN " " ELSE s[i]]

\* s.replace(/\s\s+/g, ' ')
RECURSIVE CollapseRuns(_)
CollapseRuns(s) ==
  IF s = <<>> THEN <<>>
  ELSE IF Len(s) >= 2 /\ IsWs(s[1]) /\ IsWs(s[2])
       THEN <<" ">> \o CollapseRuns(TrimLeft(s))
       ELSE <<Head(s)>> \o CollapseRuns(Tail(s))

normalizeAccessbileName(s) == Trim(CollapseRuns(ReplaceNbsp(ReplaceCrLf(s))))

\* String.prototype.split(' '): the pieces between U+0020 characters
RECURSIVE SplitSp(_, _)
SplitSp(s, cur) ==
  IF s = <<>> THEN <<cur>>
  ELSE IF Head(s) = " " THEN <<cur>> \o SplitSp(Tail(s), <<>>)
       ELSE SplitSp(Tail(s), Append(cur, Head(s)))

Split(s) == SplitSp(s, <<>>)

\* Array.prototype.join(sep)
RECURSIVE Join(_, _)
Join(parts, sep) ==
  IF parts = <<>> THEN <<>>
  ELSE IF Len(parts) = 1 THEN parts[1]
       ELSE parts[1] \o sep \o Join(Tail(parts), sep)

\* String.prototype.toLowerCase on the words the engine compares
LowerAtom(c) ==
  CASE c = "TRUE" -> "true"
    [] c = "True" -> "true"
    [] c = "FALSE" -> "false"
    [] OTHER -> c

ToLower(s) == [i \in 1..Len(s) |-> LowerAtom(s[i])]

Range(f) == {f[i] : i \in DOMAIN f}

\* Array.prototype.filter, for a predicate given as the set of kept values
RECURSIVE SelectIn(_, _)
SelectIn(seq, keep) ==
  IF seq = <<>> THEN <<>>
  ELSE IF Head(seq) \in keep THEN <<Head(seq)>> \o SelectIn(Tail(seq), keep)
       ELSE SelectIn(Tail(seq), keep)

-----------------------------------------------------------------------------
(* The document tree, as the engine reads it *)

\* A node record; every document of the model is built from it with @@.
DefaultNode ==
  [kind |-> "elem",        \* nodeType: "elem" (1) or "text" (3)
   tag |-> "DIV",          \* tagName (upper case in the HTML namespace)
   parent |-> 0,           \* parent element or shadow host, 0 for none
   inShadow |-> FALSE,     \* the node is a child of parent's shadow root
   kids |-> <<>>,          \* childNodes, in document order
   hasShadow |-> FALSE,    \* element.shadowRoot
   shadowKids |-> <<>>,    \* shadowRoot.childNodes
   slot |-> 0,             \* assignedSlot, 0 for none
   attrs |-> <<>>,         \* attributes: name -> string
   data |-> <<>>,          \* textContent of a text node
   display |-> "inline",   \* computed style display
   visible |-> TRUE,       \* isElementStyleVisibilityVisible / isVisibleTextNode
   before |-> <<>>,        \* content of ::before
   beforeDisplay |-> "inline",
   after |-> <<>>,         \* content of ::after
   afterDisplay |-> "inline",
   type |-> "text",        \* HTMLInputElement.type
   value |-> <<>>,         \* .value of a form control
   labels |-> <<>>,        \* .labels of a labelable element
   selected |-> FALSE,     \* HTMLOptionElement.selected
   checked |-> FALSE,      \* HTMLInputElement.checked
   indeterminate |-> FALSE,
   open |-> FALSE,         \* HTMLDetailsElement.open
   size |-> 0]             \* HTMLSelectElement.size

Nodes(d) == DOMAIN d

Elems(d) == {n \in DOMAIN d : d[n].kind = "elem"}

hasAttribute(d, e, a) == a \in DOMAIN d[e].attrs

\* element.getAttribute(a) || ''
getAttributeOrEmpty(d, e, a) == IF hasAttribute(d, e, a) THEN d[e].attrs[a] ELSE <<>>

\* element.getAttribute(a) === word
attributeIs(d, e, a, word) == hasAttribute(d, e, a) /\ d[e].attrs[a] = <<word>>

parentElement(d, e) == IF d[e].inShadow THEN 0 ELSE d[e].parent

parentElementOrShadowHost(d, e) == d[e].parent

\* The tree scope of a node: 0 for the document, the host for a shadow root.
RECURSIVE enclosingShadowRootOrDocument(_, _)
enclosingShadowRootOrDocument(d, n) ==
  IF d[n].parent = 0 THEN 0
  ELSE IF d[n].inShadow THEN d[n].parent
       ELSE enclosingShadowRootOrDocument(d, d[n].parent)

\* The ascending sequence of a finite set of node numbers.
RECURSIVE SortedSeq(_)
SortedSeq(S) ==
  IF S = {} THEN <<>>
  ELSE LET m == CHOOSE x \in S : \A y \in S : x <= y
       IN <<m>> \o SortedSeq(S \ {m})

\* HTMLSlotElement.assignedNodes()
assignedNodes(d, s) == SortedSeq({n \in DOMAIN d : d[n].slot = s})

\* The element and its ancestors through parents and shadow hosts, nearest first.
RECURSIVE ChainCrossShadow(_, _)
ChainCrossShadow(d, e) ==
  IF e = 0 THEN <<>> ELSE <<e>> \o ChainCrossShadow(d, d[e].parent)

\* The element and its light-tree ancestors, nearest first (element.closest).
RECURSIVE ChainLight(_, _)
ChainLight(d, e) ==
  IF e = 0 THEN <<>> ELSE <<e>> \o ChainLight(d, parentElement(d, e))

\* Descendant elements of e in its own tree (querySelectorAll('*')), document order.
RECURSIVE DescendantSet(_, _)
DescendantSet(d, e) ==
  LET ks == {k \in Range(d[e].kids) : d[k].kind = "elem"}
  IN ks \cup UNION {DescendantSet(d, k) : k \in ks}

Descendants(d, e) == SortedSeq(DescendantSet(d, e))

\* element.textContent
RECURSIVE textContent(_, _)
RECURSIVE textContentOfList(_, _)
textContent(d, n) ==
  IF d[n].kind = "text" THEN d[n].data ELSE textContentOfList(d, d[n].kids)
textContentOfList(d, ks) ==
  IF ks = <<>> THEN <<>> ELSE textContent(d, Head(ks)) \o textContentOfList(d, Tail(ks))

\* tagName.toUpperCase(), for the lower-case tag names of the SVG namespace
tagUpper(t) ==
  CASE t = "svg" -> "SVG"
    [] t = "title" -> "TITLE"
    [] t = "a" -> "A"
    [] OTHER -> t

\* Number(s) for the attribute values of the model: the words that are numerals.
Numerals ==
  [w \in {"0", "1", "2", "3", "7", "-1", "1.5", "1e1", "+2", "007"} |->
     CASE w = "0" -> [int |-> TRUE, val |-> 0]
       [] w = "1" -> [int |-> TRUE, val |-> 1]
       [] w = "2" -> [int |-> TRUE, val |-> 2]
       [] w = "3" -> [int |-> TRUE, val |-> 3]
       [] w = "7" -> [int |-> TRUE, val |-> 7]
       [] w = "-1" -> [int |-> TRUE, val |-> -1]
       [] w = "1.5" -> [int |-> FALSE, val |-> 1]
       [] w = "1e1" -> [int |-> TRUE, val |-> 10]
       [] w = "+2" -> [int |-> TRUE, val |-> 2]
       [] w = "007" -> [int |-> TRUE, val |-> 7]]

\* Number(s): .nan, and for a number whether it is an integer and which
JsNumber(s) ==
  LET t == Trim(s)
  IN IF t = <<>> THEN [nan |-> FALSE, int |-> TRUE, val |-> 0]
     ELSE IF Len(t) = 1 /\ t[1] \in DOMAIN Numerals
          THEN [nan |-> FALSE, int |-> Numerals[t[1]].int, val |-> Numerals[t[1]].val]
          ELSE [nan |-> TRUE, int |-> FALSE, val |-> 0]

-----------------------------------------------------------------------------
(* Role resolver *)

Null == "<null>"

hasExplicitAccessibleName(d, e) ==
  hasAttribute(d, e, "aria-label") \/ hasAttribute(d, e, "aria-labelledby")

kGlobalAriaAttributes ==
  {"aria-atomic", "aria-busy", "aria-controls", "aria-current", "aria-describedby",
   "aria-details", "aria-disabled", "aria-dropeffect", "aria-errormessage",
   "aria-flowto", "aria-grabbed", "aria-haspopup", "aria-hidden", "aria-invalid",
   "aria-keyshortcuts", "aria-label", "aria-labelledby", "aria-live", "aria-owns",
   "aria-relevant", "aria-roledescription"}

hasGlobalAriaAttribute(d, e) == \E a \in kGlobalAriaAttributes : hasAttribute(d, e, a)

allRoles ==
  {"alert", "alertdialog", "application", "article", "banner", "blockquote", "button",
   "caption", "cell", "checkbox", "code", "columnheader", "combobox", "command",
   "complementary", "composite", "contentinfo", "definition", "deletion", "dialog",
   "directory", "document", "emphasis", "feed", "figure", "form", "generic", "grid",
   "gridcell", "group", "heading", "img", "input", "insertion", "landmark", "link",
   "list", "listbox", "listitem", "log", "main", "marquee", "math", "meter", "menu",
   "menubar", "menuitem", "menuitemcheckbox", "menuitemradio", "navigation", "none",
   "note", "option", "paragraph", "presentation", "progressbar", "radio", "radiogroup",
   "range", "region", "roletype", "row", "rowgroup", "rowheader", "scrollbar", "search",
   "searchbox", "section", "sectionhead", "select", "separator", "slider", "spinbutton",
   "status", "strong", "structure", "subscript", "superscript", "switch", "tab", "table",
   "tablist", "tabpanel", "term", "textbox", "time", "timer", "toolbar", "tooltip",
   "tree", "treegrid", "treeitem", "widget", "window"}

abstractRoles ==
  {"command", "composite", "input", "landmark", "range", "roletype", "section",
   "sectionhead", "select", "structure", "widget", "window"}

validRoles == allRoles \ abstractRoles

\* Array.prototype.find over the tokens of the role attribute
RECURSIVE FirstValidRole(_)
FirstValidRole(tokens) ==
  IF tokens = <<>> THEN Null
  ELSE LET t == Trim(Head(tokens))
       IN IF Len(t) = 1 /\ t[1] \in validRoles THEN t[1]
          ELSE FirstValidRole(Tail(tokens))

getExplicitAriaRole(d, e) == FirstValidRole(Split(getAttributeOrEmpty(d, e, "role")))

\* The first element of the sequence ids, deduplicated (new Set / [...set])
RECURSIVE Dedupe(_, _)
Dedupe(seq, seen) ==
  IF seq = <<>> THEN <<>>
  ELSE IF Head(seq) \in seen THEN Dedupe(Tail(seq), seen)
       ELSE <<Head(seq)>> \o Dedupe(Tail(seq), seen \cup {Head(seq)})

\* A faulty querySelectorId that searches every tree scope.
querySelectorIdAnywhere(d, root, id) ==
  LET hits == {n \in Elems(d) : hasAttribute(d, n, "id") /\ d[n].attrs["id"] = id}
  IN IF hits = {} THEN 0 ELSE CHOOSE n \in hits : \A m \in hits : n <= m

\* root.querySelector('#' + CSS.escape(id)): first element of the scope with that id
querySelectorId(d, root, id) ==
  LET hits == {n \in Elems(d) : /\ enclosingShadowRootOrDocument(d, n) = root
                                /\ hasAttribute(d, n, "id")
                                /\ d[n].attrs["id"] = id}
  IN IF hits = {} THEN 0 ELSE CHOOSE n \in hits : \A m \in hits : n <= m

RECURSIVE LookupIds(_, _, _)
LookupIds(d, root, ids) ==
  IF ids = <<>> THEN <<>>
  ELSE LET firstElement == querySelectorId(d, root, Head(ids))
       IN (IF firstElement # 0 THEN <<firstElement>> ELSE <<>>)
          \o LookupIds(d, root, Tail(ids))

RECURSIVE NonEmpty(_)
NonEmpty(parts) ==
  IF parts = <<>> THEN <<>>
  ELSE (IF Head(parts) # <<>> THEN <<Head(parts)>> ELSE <<>>) \o NonEmpty(Tail(parts))

\* ref is the attribute value, <<>> for null or ''
getIdRefs(d, e, ref) ==
  IF ref = <<>> THEN <<>>
  ELSE Dedupe(LookupIds(d, enclosingShadowRootOrDocument(d, e), NonEmpty(Split(ref))), {})

\* el.matches(kAncestorPreventingLandmark)
PreventsLandmark(d, a) ==
  \/ d[a].tag \in {"ARTICLE", "ASIDE", "MAIN", "NAV", "SECTION"} /\ ~hasAttribute(d, a, "role")
  \/ \E r \in {"article", "complementary", "main", "navigation", "region"} :
       attributeIs(d, a, "role", r)

\* closestCrossShadow(e, css) !== undefined, css given as the set of matching nodes
closestCrossShadowIn(d, e, matching) ==
  LET hits == SelectIn(ChainCrossShadow(d, e), matching)
  IN IF hits = <<>> THEN 0 ELSE Head(hits)

GridCellOrCell(d, e) ==
  LET table == closestCrossShadowIn(d, e, {n \in Elems(d) : d[n].tag = "TABLE"})
      role == IF table # 0 THEN getExplicitAriaRole(d, table) ELSE ""
  IN IF role = "grid" \/ role = "treegrid" THEN "gridcell" ELSE "cell"

InputRole(d, e) ==
  LET type == d[e].type
  IN IF type = "search"
     THEN (IF hasAttribute(d, e, "list") THEN "combobox" ELSE "searchbox")
     ELSE IF type \in {"email", "tel", "text", "url", ""}
     THEN LET list == getIdRefs(d, e, getAttributeOrEmpty(d, e, "list"))
          IN IF list # <<>> /\ d[list[1]].tag = "DATALIST" THEN "combobox" ELSE "textbox"
     ELSE IF type = "hidden" THEN ""
     ELSE CASE type = "button" -> "button"
            [] type = "checkbox" -> "checkbox"
            [] type = "image" -> "button"
            [] type = "number" -> "spinbutton"
            [] type = "radio" -> "radio"
            [] type = "range" -> "slider"
            [] type = "reset" -> "button"
            [] type = "submit" -> "button"
            [] OTHER -> "textbox"

\* Number.isNaN(Number(String(e.getAttribute('tabindex'))))
TabindexIsNaN(d, e) ==
  IF hasAttribute(d, e, "tabindex") THEN JsNumber(d[e].attrs["tabindex"]).nan ELSE TRUE

\* kImplicitRoleByTagName[tag]?.(e) || ''
\* A faulty ImplicitRoleOfAnchor that does not look at href.
ImplicitRoleOfAnchorAlwaysLink(d, e) == "link"

\* kImplicitRoleByTagName['A'] and ['AREA']
ImplicitRoleOfAnchor(d, e) == IF hasAttribute(d, e, "href") THEN "link" ELSE ""

kImplicitRoleByTagName(d, e, tag) ==
  CASE tag \in {"A", "AREA"} -> ImplicitRoleOfAnchor(d, e)
    [] tag = "ARTICLE" -> "article"
    [] tag = "ASIDE" -> "complementary"
    [] tag = "BLOCKQUOTE" -> "blockquote"
    [] tag = "BUTTON" -> "button"
    [] tag = "CAPTION" -> "caption"
    [] tag = "CODE" -> "code"
    [] tag = "DATALIST" -> "listbox"
    [] tag = "DD" -> "definition"
    [] tag = "DEL" -> "deletion"
    [] tag = "DETAILS" -> "group"
    [] tag = "DFN" -> "term"
    [] tag = "DIALOG" -> "dialog"
    [] tag = "DT" -> "term"
    [] tag = "EM" -> "emphasis"
    [] tag = "FIELDSET" -> "group"
    [] tag = "FIGURE" -> "figure"
    [] tag = "FOOTER" ->
         IF closestCrossShadowIn(d, e, {a \in Elems(d) : PreventsLandmark(d, a)}) # 0
         THEN "" ELSE "contentinfo"
    [] tag = "FORM" -> IF hasExplicitAccessibleName(d, e) THEN "form" ELSE ""
    [] tag \in {"H1", "H2", "H3", "H4", "H5", "H6"} -> "heading"
    [] tag = "HEADER" ->
         IF closestCrossShadowIn(d, e, {a \in Elems(d) : PreventsLandmark(d, a)}) # 0
         THEN "" ELSE "banner"
    [] tag = "HR" -> "separator"
    [] tag = "HTML" -> "document"
    [] tag = "IMG" ->
         IF /\ hasAttribute(d, e, "alt") /\ d[e].attrs["alt"] = <<>>
            /\ ~hasGlobalAriaAttribute(d, e)
            /\ TabindexIsNaN(d, e)
         THEN "presentation" ELSE "img"
    [] tag = "INPUT" -> InputRole(d, e)
    [] tag = "INS" -> "insertion"
    [] tag = "LI" -> "listitem"
    [] tag = "MAIN" -> "main"
    [] tag = "MARK" -> "mark"
    [] tag = "MATH" -> "math"
    [] tag = "MENU" -> "list"
    [] tag = "METER" -> "meter"
    [] tag = "NAV" -> "navigation"
    [] tag = "OL" -> "list"
    [] tag = "OPTGROUP" -> "group"
    [] tag = "OPTION" -> "option"
    [] tag = "OUTPUT" -> "status"
    [] tag = "P" -> "paragraph"
    [] tag = "PROGRESS" -> "progressbar"
    [] tag = "SECTION" -> IF hasExplicitAccessibleName(d, e) THEN "region" ELSE ""
    [] tag = "SELECT" ->
         IF hasAttribute(d, e, "multiple") \/ d[e].size > 1 THEN "listbox" ELSE "combobox"
    [] tag = "STRONG" -> "strong"
    [] tag = "SUB" -> "subscript"
    [] tag = "SUP" -> "superscript"
    [] tag = "SVG" -> "img"
    [] tag = "TABLE" -> "table"
    [] tag = "TBODY" -> "rowgroup"
    [] tag = "TD" -> GridCellOrCell(d, e)
    [] tag = "TEXTAREA" -> "textbox"
    [] tag = "TFOOT" -> "rowgroup"
    [] tag = "TH" ->
         IF attributeIs(d, e, "scope", "col") THEN "columnheader"
         ELSE IF attributeIs(d, e, "scope", "row") THEN "rowheader"
         ELSE GridCellOrCell(d, e)
    [] tag = "THEAD" -> "rowgroup"
    [] tag = "TIME" -> "time"
    [] tag = "TR" -> "row"
    [] tag = "UL" -> "list"
    [] OTHER -> ""

\* kPresentationInheritanceParents[tag], {} for a tag that is no key of the table
kPresentationInheritanceParents(tag) ==
  CASE tag = "DD" -> {"DL", "DIV"}
    [] tag = "DIV" -> {"DL"}
    [] tag = "DT" -> {"DL", "DIV"}
    [] tag = "LI" -> {"OL", "UL"}
    [] tag = "TBODY" -> {"TABLE"}
    [] tag = "TD" -> {"TR"}
    [] tag = "TFOOT" -> {"TABLE"}
    [] tag = "TH" -> {"TR"}
    [] tag = "THEAD" -> {"TABLE"}
    [] tag = "TR" -> {"THEAD", "TBODY", "TFOOT", "TABLE"}
    [] OTHER -> {}

hasPresentationConflictResolution(d, e) == ~hasGlobalAriaAttribute(d, e)

\* The while loop of getImplicitAriaRole
RECURSIVE InheritPresentation(_, _, _)
InheritPresentation(d, ancestor, implicitRole) ==
  LET parent == parentElementOrShadowHost(d, ancestor)
      parents == kPresentationInheritanceParents(d[ancestor].tag)
  IN IF parents = {} \/ parent = 0 \/ d[parent].tag \notin parents
     THEN implicitRole
     ELSE LET parentExplicitRole == getExplicitAriaRole(d, parent)
          IN IF /\ parentExplicitRole \in {"none", "presentation"}
                /\ ~hasPresentationConflictResolution(d, parent)
             THEN parentExplicitRole
             ELSE InheritPresentation(d, parent, implicitRole)

getImplicitAriaRole(d, e) ==
  LET implicitRole == kImplicitRoleByTagName(d, e, tagUpper(d[e].tag))
  IN IF implicitRole = "" THEN Null
     ELSE InheritPresentation(d, e, implicitRole)

getAriaRole(d, e) ==
  LET explicitRole == getExplicitAriaRole(d, e)
  IN IF explicitRole = Null THEN getImplicitAriaRole(d, e)
     ELSE IF /\ explicitRole \in {"none", "presentation"}
             /\ hasPresentationConflictResolution(d, e)
          THEN getImplicitAriaRole(d, e)
          ELSE explicitRole

\* getAriaRole(element) || ''
RoleOrEmpty(d, e) == LET r == getAriaRole(d, e) IN IF r = Null THEN "" ELSE r

-----------------------------------------------------------------------------
(* Visibility classifier *)

\* A cache is [on, map]: on is FALSE while the variable is undefined; map gives
\* <<>> for a node without entry and <<v>> for a node whose entry is v.
NoEntries(d) == [n \in DOMAIN d |-> <<>>]

UndefinedCache(d) == [on |-> FALSE, map |-> NoEntries(d)]

NewMap(d) == [on |-> TRUE, map |-> NoEntries(d)]

\* cache?.get(e) === undefined
CacheMiss(c, e) == ~c.on \/ c.map[e] = <<>>

\* getAriaBoolean(e.getAttribute(a)) === true
getAriaBooleanIsTrue(d, e, a) ==
  hasAttribute(d, e, a) /\ ToLower(d[e].attrs[a]) = <<"true">>

\* A faulty CacheSet that stores the initial value of hidden, false.
CacheSetInitial(c, e, v) == IF c.on THEN [c EXCEPT !.map[e] = <<FALSE>>] ELSE c

\* cache?.set(e, v)
CacheSet(c, e, v) == IF c.on THEN [c EXCEPT !.map[e] = <<v>>] ELSE c

\* A faulty belongsToDisplayNoneOrAriaHiddenOrNonSlotted that does not look at
\* the parent.
belongsToItselfOnly(d, e, c) ==
  [val |-> \/ (parentElement(d, e) # 0 /\ d[parentElement(d, e)].hasShadow /\ d[e].slot = 0)
           \/ d[e].display = "none"
           \/ getAriaBooleanIsTrue(d, e, "aria-hidden"),
   c |-> c]

\* Returns [val, c]: the answer and cacheIsHidden after the call.
RECURSIVE belongsToDisplayNoneOrAriaHiddenOrNonSlotted(_, _, _)
belongsToDisplayNoneOrAriaHiddenOrNonSlotted(d, e, c) ==
  IF ~CacheMiss(c, e) THEN [val |-> c.map[e][1], c |-> c]
  ELSE
    LET pe == parentElement(d, e)
        nonSlotted == pe # 0 /\ d[pe].hasShadow /\ d[e].slot = 0
        own == \/ nonSlotted
               \/ d[e].display = "none"
               \/ getAriaBooleanIsTrue(d, e, "aria-hidden")
        parent == parentElementOrShadowHost(d, e)
        up == IF ~own /\ parent # 0
              THEN belongsToDisplayNoneOrAriaHiddenOrNonSlotted(d, parent, c)
              ELSE [val |-> own, c |-> c]
    IN [val |-> up.val, c |-> CacheSet(up.c, e, up.val)]

\* Returns [val, c]: the answer and cacheIsHidden after the call.
RECURSIVE isElementHiddenForAria(_, _, _)
RECURSIVE AllChildrenHidden(_, _, _)
RECURSIVE AllChildElementsHidden(_, _, _)
isElementHiddenForAria(d, e, c) ==
  IF d[e].tag \in {"STYLE", "SCRIPT", "NOSCRIPT", "TEMPLATE"} THEN [val |-> TRUE, c |-> c]
  ELSE
    LET isSlot == d[e].tag = "SLOT"
        isOptionInsideSelect ==
          d[e].tag = "OPTION" /\ \E a \in Range(ChainLight(d, e)) : d[a].tag = "SELECT"
    IN IF d[e].display = "contents" /\ ~isSlot
       THEN AllChildrenHidden(d, d[e].kids, c)
       ELSE IF ~isOptionInsideSelect /\ ~isSlot /\ ~d[e].visible
            THEN [val |-> TRUE, c |-> c]
            ELSE belongsToDisplayNoneOrAriaHiddenOrNonSlotted(d, e, c)

\* A faulty AllChildrenHidden that skips the text nodes.
AllChildElementsHidden(d, ks, c) ==
  IF ks = <<>> THEN [val |-> TRUE, c |-> c]
  ELSE IF d[Head(ks)].kind = "elem" /\ ~isElementHiddenForAria(d, Head(ks), c).val
       THEN [val |-> FALSE, c |-> c]
       ELSE AllChildElementsHidden(d, Tail(ks), c)

\* The for loop over the children of a display:contents element
AllChildrenHidden(d, ks, c) ==
  IF ks = <<>> THEN [val |-> TRUE, c |-> c]
  ELSE LET child == Head(ks)
       IN IF d[child].kind = "elem"
          THEN LET r == isElementHiddenForAria(d, child, c)
               IN IF ~r.val THEN [val |-> FALSE, c |-> r.c]
                  ELSE AllChildrenHidden(d, Tail(ks), r.c)
          ELSE IF d[child].visible THEN [val |-> FALSE, c |-> c]
               ELSE AllChildrenHidden(d, Tail(ks), c)

-----------------------------------------------------------------------------
(* Name computation engine *)

\* getPseudoContent(getElementComputedStyle(element, pseudo))
getPseudoContent(content, display) ==
  IF /\ content # <<>>
     /\ \/ content[1] = "'" /\ content[Len(content)] = "'"
        \/ content[1] = "\"" /\ content[Len(content)] = "\""
  THEN LET unquoted == SubSeq(content, 2, Len(content) - 1)
       IN IF display # "inline" THEN <<" ">> \o unquoted \o <<" ">> ELSE unquoted
  ELSE <<>>

\* getAriaLabelledByElements(element) || []
getAriaLabelledByElements(d, e) == getIdRefs(d, e, getAttributeOrEmpty(d, e, "aria-labelledby"))

allowsNameFromContent(role, targetDescendant) ==
  LET alwaysAllowsNameFromContent ==
        role \in {"button", "cell", "checkbox", "columnheader", "gridcell", "heading",
                  "link", "menuitem", "menuitemcheckbox", "menuitemradio", "option",
                  "radio", "row", "rowheader", "switch", "tab", "tooltip", "treeitem"}
      descendantAllowsNameFromContent ==
        /\ targetDescendant
        /\ role \in {"", "caption", "code", "contentinfo", "definition", "deletion",
                     "emphasis", "insertion", "list", "listitem", "mark", "none",
                     "paragraph", "presentation", "region", "row", "rowgroup", "section",
                     "strong", "subscript", "superscript", "table", "term", "time"}
  IN alwaysAllowsNameFromContent \/ descendantAllowsNameFromContent

\* element.querySelectorAll(selector), the selector given as the set of matching nodes
querySelectorAll(d, e, matching) == SelectIn(Descendants(d, e), matching)

RECURSIVE OwnedMatches(_, _, _)
OwnedMatches(d, owned, matching) ==
  IF owned = <<>> THEN <<>>
  ELSE (IF Head(owned) \in matching THEN <<Head(owned)>> ELSE <<>>)
       \o querySelectorAll(d, Head(owned), matching)
       \o OwnedMatches(d, Tail(owned), matching)

queryInAriaOwned(d, e, matching) ==
  querySelectorAll(d, e, matching)
  \o OwnedMatches(d, getIdRefs(d, e, getAttributeOrEmpty(d, e, "aria-owns")), matching)

\* HTMLSelectElement.options
selectOptions(d, e) ==
  SortedSeq({n \in Elems(d) :
               /\ d[n].tag = "OPTION"
               /\ LET p == parentElement(d, n)
                  IN p # 0 /\ (p = e \/ (d[p].tag = "OPTGROUP" /\ parentElement(d, p) = e))})

\* element.ownerSVGElement: the nearest svg ancestor of an element of the SVG namespace
SvgNamespaceTags == {"svg", "title", "a", "g"}

ownerSVGElement(d, e) ==
  IF d[e].tag \in SvgNamespaceTags /\ parentElement(d, e) # 0
  THEN LET hits == SelectIn(ChainLight(d, parentElement(d, e)),
                            {n \in Elems(d) : d[n].tag = "svg"})
       IN IF hits = <<>> THEN 0 ELSE hits[1]
  ELSE 0

\* The first element child of e with the given upper-cased tag, 0 for none
FirstChildTagged(d, e, tag, needSvg) ==
  LET hits == {k \in Range(d[e].kids) :
                 /\ d[k].kind = "elem" /\ tagUpper(d[k].tag) = tag
                 /\ (needSvg => ownerSVGElement(d, k) # 0)
                 /\ (~needSvg => d[k].tag = tag)}
  IN IF hits = {} THEN 0
     ELSE LET i == CHOOSE i \in DOMAIN d[e].kids :
                     /\ d[e].kids[i] \in hits
                     /\ \A j \in DOMAIN d[e].kids : d[e].kids[j] \in hits => i <= j
          IN d[e].kids[i]

\* The options a top-level call starts from.
TopOptions(includeHidden) ==
  [includeHidden |-> includeHidden,
   embeddedInLabelledBy |-> "none",
   embeddedInLabel |-> "none",
   embeddedInTextAlternativeElement |-> FALSE,
   embeddedInTargetElement |-> "self"]

\* What a call of the worker gives back: the string s, visitedElements v and
\* cacheIsHidden h after the call, done (a return statement was reached) and
\* ok (FALSE when the call stack grew beyond the depth the model allows).
Ret(s, v, h) == [s |-> s, v |-> v, h |-> h, ok |-> TRUE, done |-> TRUE]

Through(v, h) == [s |-> <<>>, v |-> v, h |-> h, ok |-> TRUE, done |-> FALSE]

TooDeep(v, h) == [s |-> <<>>, v |-> v, h |-> h, ok |-> FALSE, done |-> TRUE]

\* A faulty visitedElementsHas that never finds the element.
visitedElementsHasNever(v, e) == FALSE

\* options.visitedElements.has(element)
visitedElementsHas(v, e) == e \in v

\* A faulty JoinLabelNames that joins the names with nothing in between.
JoinLabelNamesNoSeparator(parts) == Join(NonEmpty(parts), <<>>)

\* .filter(accessibleName => !!accessibleName).join(' ')
JoinLabelNames(parts) == Join(NonEmpty(parts), <<" ">>)

RECURSIVE getElementAccessibleNameInternal(_, _, _, _, _, _)

\* list.map(x => getElementAccessibleNameInternal(x, o)): [parts, v, h, ok]
RECURSIVE NameEach(_, _, _, _, _, _)
NameEach(d, list, o, v, h, fuel) ==
  IF list = <<>> THEN [parts |-> <<>>, v |-> v, h |-> h, ok |-> TRUE]
  ELSE LET r == getElementAccessibleNameInternal(d, Head(list), o, v, h, fuel)
       IN IF ~r.ok THEN [parts |-> <<>>, v |-> r.v, h |-> r.h, ok |-> FALSE]
          ELSE LET rest == NameEach(d, Tail(list), o, r.v, r.h, fuel)
               IN [parts |-> <<r.s>> \o rest.parts, v |-> rest.v, h |-> rest.h,
                   ok |-> rest.ok]

getAccessibleNameFromAssociatedLabels(d, labels, o, v, h, fuel) ==
  LET r == NameEach(d, labels,
                    [o EXCEPT !.embeddedInLabel = "self",
                              !.embeddedInTextAlternativeElement = FALSE,
                              !.embeddedInLabelledBy = "none",
                              !.embeddedInTargetElement = "none"], v, h, fuel)
  IN IF ~r.ok THEN TooDeep(r.v, r.h)
     ELSE Ret(JoinLabelNames(r.parts), r.v, r.h)

\* The calls of visit(node, skipSlotted) of step 2f over a list of nodes:
\* [s, v, h, ok], s the tokens pushed, concatenated
RECURSIVE VisitEach(_, _, _, _, _, _, _)
VisitEach(d, nodes, skipSlotted, co, v, h, fuel) ==
  IF nodes = <<>> THEN [s |-> <<>>, v |-> v, h |-> h, ok |-> TRUE]
  ELSE
    LET node == Head(nodes)
    IN IF skipSlotted /\ d[node].slot # 0
       THEN VisitEach(d, Tail(nodes), skipSlotted, co, v, h, fuel)
       ELSE IF d[node].kind = "elem"
       THEN LET r == getElementAccessibleNameInternal(d, node, co, v, h, fuel)
                token == IF d[node].display # "inline" \/ d[node].tag = "BR"
                         THEN <<" ">> \o r.s \o <<" ">> ELSE r.s
            IN IF ~r.ok THEN [s |-> <<>>, v |-> r.v, h |-> r.h, ok |-> FALSE]
               ELSE LET rest == VisitEach(d, Tail(nodes), skipSlotted, co, r.v, r.h, fuel)
                    IN [s |-> token \o rest.s, v |-> rest.v, h |-> rest.h, ok |-> rest.ok]
       ELSE LET rest == VisitEach(d, Tail(nodes), skipSlotted, co, v, h, fuel)
            IN [s |-> d[node].data \o rest.s, v |-> rest.v, h |-> rest.h, ok |-> rest.ok]

\* const childOptions = {...options, self becoming descendant}
childOptions(o) ==
  [o EXCEPT !.embeddedInLabel = IF @ = "self" THEN "descendant" ELSE @,
            !.embeddedInLabelledBy = IF @ = "self" THEN "descendant" ELSE @,
            !.embeddedInTargetElement = IF @ = "self" THEN "descendant" ELSE @]

\* A faulty nativeSelectedOptions without the default to the first option.
nativeSelectedOptionsOnly(d, e) ==
  SelectIn(selectOptions(d, e), {n \in Elems(d) : d[n].selected})

\* selectedOptions of a SELECT, or its first option when none is selected
nativeSelectedOptions(d, e) ==
  LET sel == SelectIn(selectOptions(d, e), {n \in Elems(d) : d[n].selected})
  IN IF sel = <<>> /\ selectOptions(d, e) # <<>> THEN <<selectOptions(d, e)[1]>> ELSE sel

\* found[0], 0 for undefined
FirstOrNone(found) == IF found = <<>> THEN 0 ELSE found[1]

\* The listbox of a combobox or listbox that is not a SELECT, 0 for none
listboxOf(d, e, role) ==
  IF role = "combobox"
  THEN FirstOrNone(SelectIn(queryInAriaOwned(d, e, Elems(d)),
                            {x \in Elems(d) : getAriaRole(d, x) = "listbox"}))
  ELSE e

\* The options with aria-selected="true" in and owned by listbox
ariaSelectedOptions(d, listbox) ==
  IF listbox = 0 THEN <<>>
  ELSE SelectIn(queryInAriaOwned(d, listbox,
                                 {x \in Elems(d) : attributeIs(d, x, "aria-selected", "true")}),
                {x \in Elems(d) : getAriaRole(d, x) = "option"})

\* selectedOptions.map(...).join(' '), r being what the map gave
JoinOptionNames(r) ==
  IF ~r.ok THEN TooDeep(r.v, r.h) ELSE Ret(Join(r.parts, <<" ">>), r.v, r.h)

\* step 2c: the value of an embedded control
Step2c(d, e, o, role, v, h, fuel) ==
  IF o.embeddedInLabel = "none" /\ o.embeddedInLabelledBy = "none" THEN Through(v, h)
  ELSE
    LET isOwnLabel == e \in Range(d[e].labels)
        isOwnLabelledBy == e \in Range(getAriaLabelledByElements(d, e))
    IN IF isOwnLabel \/ isOwnLabelledBy THEN Through(v, h)
       ELSE IF role = "textbox"
       THEN IF d[e].tag \in {"INPUT", "TEXTAREA"}
            THEN Ret(d[e].value, v \cup {e}, h)
            ELSE Ret(textContent(d, e), v \cup {e}, h)
       ELSE IF role \in {"combobox", "listbox"}
       THEN JoinOptionNames(
              NameEach(d,
                       IF d[e].tag = "SELECT" THEN nativeSelectedOptions(d, e)
                       ELSE ariaSelectedOptions(d, listboxOf(d, e, role)),
                       childOptions(o), v \cup {e}, h, fuel - 1))
       ELSE IF role \in {"progressbar", "scrollbar", "slider", "spinbutton", "meter"}
       THEN IF hasAttribute(d, e, "aria-valuetext")
            THEN Ret(d[e].attrs["aria-valuetext"], v \cup {e}, h)
            ELSE IF hasAttribute(d, e, "aria-valuenow")
            THEN Ret(d[e].attrs["aria-valuenow"], v \cup {e}, h)
            ELSE Ret(getAttributeOrEmpty(d, e, "value"), v \cup {e}, h)
       ELSE IF role = "menu" THEN Ret(<<>>, v \cup {e}, h)
       ELSE Through(v, h)

\* For a fieldset, figure or table: the name of child as embedded text alternative
FromChild(d, child, opts, v, h, fuel) ==
  getElementAccessibleNameInternal(d, child, opts, v, h, fuel - 1)

\* A faulty tableName that looks at the summary attribute before the caption.
tableNameSummaryFirst(d, e, textAlt, v1, h, fuel) ==
  LET child == FirstChildTagged(d, e, "CAPTION", FALSE)
      summary == getAttributeOrEmpty(d, e, "summary")
  IN IF summary # <<>> THEN Ret(summary, v1, h)
     ELSE IF child # 0 THEN FromChild(d, child, textAlt, v1, h, fuel)
     ELSE Through(v1, h)

\* step 2e for a TABLE: the first caption child, else the summary attribute
tableName(d, e, textAlt, v1, h, fuel) ==
  LET child == FirstChildTagged(d, e, "CAPTION", FALSE)
      summary == getAttributeOrEmpty(d, e, "summary")
  IN IF child # 0 THEN FromChild(d, child, textAlt, v1, h, fuel)
     ELSE IF summary # <<>> THEN Ret(summary, v1, h)
     ELSE Through(v1, h)

\* step 2e: native host-language labelling (entered when role is not presentation/none)
Step2e(d, e, o, v, h, fuel) ==
  LET tag == d[e].tag
      hasLabelledBy == hasAttribute(d, e, "aria-labelledby")
      labels == d[e].labels
      title == getAttributeOrEmpty(d, e, "title")
      alt == getAttributeOrEmpty(d, e, "alt")
      v1 == v \cup {e}
      textAlt == [childOptions(o) EXCEPT !.embeddedInTextAlternativeElement = TRUE]
  IN IF tag = "INPUT" /\ d[e].type \in {"button", "submit", "reset"}
     THEN IF Trim(d[e].value) # <<>> THEN Ret(d[e].value, v1, h)
          ELSE IF d[e].type = "submit" THEN Ret(<<"Submit">>, v1, h)
          ELSE IF d[e].type = "reset" THEN Ret(<<"Reset">>, v1, h)
          ELSE Ret(title, v1, h)
     ELSE IF tag = "INPUT" /\ d[e].type = "image"
     THEN IF labels # <<>> /\ o.embeddedInLabelledBy = "none"
          THEN getAccessibleNameFromAssociatedLabels(d, labels, o, v1, h, fuel - 1)
          ELSE IF Trim(alt) # <<>> THEN Ret(alt, v1, h)
          ELSE IF Trim(title) # <<>> THEN Ret(title, v1, h)
          ELSE Ret(<<"Submit">>, v1, h)
     ELSE IF ~hasLabelledBy /\ tag = "BUTTON"
     THEN IF labels # <<>>
          THEN getAccessibleNameFromAssociatedLabels(d, labels, o, v1, h, fuel - 1)
          ELSE Through(v1, h)
     ELSE IF ~hasLabelledBy /\ tag = "OUTPUT"
     THEN IF labels # <<>>
          THEN getAccessibleNameFromAssociatedLabels(d, labels, o, v1, h, fuel - 1)
          ELSE Ret(title, v1, h)
     ELSE IF ~hasLabelledBy /\ tag \in {"TEXTAREA", "SELECT", "INPUT"}
     THEN IF labels # <<>>
          THEN getAccessibleNameFromAssociatedLabels(d, labels, o, v1, h, fuel - 1)
          ELSE LET usePlaceholder ==
                     \/ tag = "INPUT" /\ d[e].type \in {"text", "password", "search",
                                                        "tel", "email", "url"}
                     \/ tag = "TEXTAREA"
                   placeholder == getAttributeOrEmpty(d, e, "placeholder")
               IN IF ~usePlaceholder \/ title # <<>> THEN Ret(title, v1, h)
                  ELSE Ret(placeholder, v1, h)
     ELSE IF ~hasLabelledBy /\ tag = "FIELDSET"
     THEN LET child == FirstChildTagged(d, e, "LEGEND", FALSE)
          IN IF child # 0 THEN FromChild(d, child, textAlt, v1, h, fuel)
             ELSE Ret(title, v1, h)
     ELSE IF ~hasLabelledBy /\ tag = "FIGURE"
     THEN LET child == FirstChildTagged(d, e, "FIGCAPTION", FALSE)
          IN IF child # 0 THEN FromChild(d, child, textAlt, v1, h, fuel)
             ELSE Ret(title, v1, h)
     ELSE IF tag = "IMG"
     THEN IF Trim(alt) # <<>> THEN Ret(alt, v1, h) ELSE Ret(title, v1, h)
     ELSE IF tag = "TABLE"
     THEN tableName(d, e, textAlt, v1, h, fuel)
     ELSE IF tag = "AREA"
     THEN IF Trim(alt) # <<>> THEN Ret(alt, v1, h) ELSE Ret(title, v1, h)
     ELSE LET inSvg == tagUpper(tag) = "SVG" \/ ownerSVGElement(d, e) # 0
              child == IF inSvg THEN FirstChildTagged(d, e, "TITLE", TRUE) ELSE 0
              v2 == IF inSvg THEN v1 ELSE v
              xlink == getAttributeOrEmpty(d, e, "xlink:title")
          IN IF child # 0
             THEN FromChild(d, child, [childOptions(o) EXCEPT !.embeddedInLabelledBy = "self"],
                            v1, h, fuel)
             ELSE IF ownerSVGElement(d, e) # 0 /\ tagUpper(tag) = "A" /\ Trim(xlink) # <<>>
             THEN Ret(xlink, v1, h)
             ELSE Through(v2, h)

\* A faulty JoinTokens that pushes the ::after content first and the ::before
\* content last.
JoinTokensSwapped(d, e, r) ==
  LET accessibleName == getPseudoContent(d[e].after, d[e].afterDisplay)
                        \o r.s
                        \o getPseudoContent(d[e].before, d[e].beforeDisplay)
  IN IF ~r.ok THEN TooDeep(r.v, r.h)
     ELSE IF Trim(accessibleName) # <<>> THEN Ret(accessibleName, r.v, r.h)
     ELSE Through(r.v, r.h)

\* tokens.join(''), r being what the calls of visit gave, and the return of step 2f
JoinTokens(d, e, r) ==
  LET accessibleName == getPseudoContent(d[e].before, d[e].beforeDisplay)
                        \o r.s
                        \o getPseudoContent(d[e].after, d[e].afterDisplay)
  IN IF ~r.ok THEN TooDeep(r.v, r.h)
     ELSE IF Trim(accessibleName) # <<>> THEN Ret(accessibleName, r.v, r.h)
     ELSE Through(r.v, r.h)

\* steps 2f and 2h: name from content
Step2f(d, e, o, role, v, h, fuel) ==
  IF \/ allowsNameFromContent(role, o.embeddedInTargetElement = "descendant")
     \/ o.embeddedInLabelledBy # "none"
     \/ o.embeddedInLabel # "none"
     \/ o.embeddedInTextAlternativeElement
  THEN
    LET assigned == IF d[e].tag = "SLOT" THEN assignedNodes(d, e) ELSE <<>>
        owned == getIdRefs(d, e, getAttributeOrEmpty(d, e, "aria-owns"))
    IN JoinTokens(d, e,
         IF assigned # <<>>
         THEN VisitEach(d, assigned, FALSE, childOptions(o), v \cup {e}, h, fuel - 1)
         ELSE VisitEach(d, d[e].kids
                           \o (IF d[e].hasShadow THEN d[e].shadowKids ELSE <<>>)
                           \o owned,
                        TRUE, childOptions(o), v \cup {e}, h, fuel - 1))
  ELSE Through(v, h)

\* step 2i, f being what step 2f gave, and the final return
Step2i(d, e, role, f) ==
  IF f.done THEN f
  ELSE IF /\ role \notin {"presentation", "none"} \/ d[e].tag = "IFRAME"
          /\ Trim(getAttributeOrEmpty(d, e, "title")) # <<>>
       THEN Ret(getAttributeOrEmpty(d, e, "title"), f.v \cup {e}, f.h)
       ELSE Ret(<<>>, f.v \cup {e}, f.h)

\* The worker from step 2f on, e5 being what step 2e gave
AfterStep2e(d, e, o, role, fuel, e5) ==
  IF e5.done THEN e5
  ELSE Step2i(d, e, role, Step2f(d, e, o, role, e5.v, e5.h, fuel))

\* The worker from step 2d on, c being what step 2c gave
AfterStep2c(d, e, o, role, fuel, c) ==
  IF c.done THEN c
  ELSE IF Trim(getAttributeOrEmpty(d, e, "aria-label")) # <<>>
  THEN Ret(getAttributeOrEmpty(d, e, "aria-label"), c.v \cup {e}, c.h)
  ELSE AfterStep2e(d, e, o, role, fuel,
                   IF role \notin {"presentation", "none"}
                   THEN Step2e(d, e, o, c.v, c.h, fuel)
                   ELSE Through(c.v, c.h))

\* step 2b: the names of the elements aria-labelledby refers to: [parts, v, h, ok]
Step2b(d, e, o, v, h, fuel) ==
  IF o.embeddedInLabelledBy = "none"
  THEN NameEach(d, getAriaLabelledByElements(d, e),
                [o EXCEPT !.embeddedInLabelledBy = "self",
                          !.embeddedInTargetElement = "none",
                          !.embeddedInLabel = "none",
                          !.embeddedInTextAlternativeElement = FALSE],
                v, h, fuel - 1)
  ELSE [parts |-> <<>>, v |-> v, h |-> h, ok |-> TRUE]

\* The worker from the return of step 2b on, b being what step 2b gave
AfterStep2b(d, e, o, fuel, b) ==
  IF ~b.ok THEN TooDeep(b.v, b.h)
  ELSE IF Join(b.parts, <<" ">>) # <<>> THEN Ret(Join(b.parts, <<" ">>), b.v, b.h)
  ELSE AfterStep2c(d, e, o, RoleOrEmpty(d, e), fuel,
                   Step2c(d, e, o, RoleOrEmpty(d, e), b.v, b.h, fuel))

\* A faulty Step2a that also skips a hidden target of aria-labelledby.
Step2aNoExemption(d, e, o, h) ==
  IF ~o.includeHidden THEN isElementHiddenForAria(d, e, h) ELSE [val |-> FALSE, c |-> h]

\* step 2a: [val, c], whether the element is skipped as hidden, and cacheIsHidden
Step2a(d, e, o, h) ==
  IF ~o.includeHidden /\ o.embeddedInLabelledBy # "self"
  THEN isElementHiddenForAria(d, e, h)
  ELSE [val |-> FALSE, c |-> h]

\* The worker from the return of step 2a on, hid being what step 2a gave
AfterStep2a(d, e, o, v, fuel, hid) ==
  IF hid.val THEN Ret(<<>>, v \cup {e}, hid.c)
  ELSE AfterStep2b(d, e, o, fuel, Step2b(d, e, o, v, hid.c, fuel))

getElementAccessibleNameInternal(d, e, o, v, h, fuel) ==
  IF fuel = 0 THEN TooDeep(v, h)
  ELSE IF visitedElementsHas(v, e) THEN Ret(<<>>, v, h)
  ELSE AfterStep2a(d, e, o, v, fuel, Step2a(d, e, o, h))

kNamingProhibitedRoles ==
  {"caption", "code", "definition", "deletion", "emphasis", "generic", "insertion",
   "mark", "paragraph", "presentation", "strong", "subscript", "suggestion",
   "superscript", "term", "time"}

\* The depth of nested worker calls the model follows before it reports a call
\* as not returning: each nested call but every second one marks a new element.
MaxDepth(d) == 2 * Cardinality(Elems(d)) + 2

\* accessibleName = normalizeAccessbileName(...); cache?.set(element, accessibleName),
\* r being what the worker gave
Normalized(names, e, r) ==
  [s |-> normalizeAccessbileName(r.s), ok |-> r.ok,
   names |-> CacheSet(names, e, normalizeAccessbileName(r.s)), hidden |-> r.h]

\* getElementAccessibleName(element, includeHidden), for the caches as given:
\* [s, ok, names, hidden]: the string returned, and the caches after the call
\* (names is the cache selected by includeHidden).
NameCall(d, e, includeHidden, names, hidden) ==
  IF ~CacheMiss(names, e)
  THEN [s |-> names.map[e][1], ok |-> TRUE, names |-> names, hidden |-> hidden]
  ELSE IF RoleOrEmpty(d, e) \in kNamingProhibitedRoles
  THEN [s |-> <<>>, ok |-> TRUE, names |-> CacheSet(names, e, <<>>), hidden |-> hidden]
  ELSE Normalized(names, e,
                  getElementAccessibleNameInternal(d, e, TopOptions(includeHidden), {},
                                                   hidden, MaxDepth(d)))

-----------------------------------------------------------------------------
(* Documents *)

El(tag, parent, kids) == [tag |-> tag, parent |-> parent, kids |-> kids] @@ DefaultNode

Block(tag, parent, kids) ==
  [tag |-> tag, parent |-> parent, kids |-> kids, display |-> "block"] @@ DefaultNode

Text(parent, data) ==
  [kind |-> "text", tag |-> "#text", parent |-> parent, data |-> data] @@ DefaultNode

\* node, with the attributes as (a function from names to strings) added
With(node, as) == [node EXCEPT !.attrs = as @@ @]

\* Attributes given as a set of <<name, value>> pairs with distinct names
Attrs(pairs) == [a \in {p[1] : p \in pairs} |-> (CHOOSE p \in pairs : p[1] = a)[2]]

\* Every kid names its parent, every non-root node is a kid of its parent, labels
\* are label elements, and a slot a node is assigned to lies in the shadow tree of
\* the node's parent.
WellFormed(d) ==
  /\ \A n \in DOMAIN d :
       /\ \A i \in DOMAIN d[n].kids :
            LET k == d[n].kids[i] IN k \in DOMAIN d /\ d[k].parent = n /\ ~d[k].inShadow /\ k > n
       /\ \A i \in DOMAIN d[n].shadowKids :
            LET k == d[n].shadowKids[i] IN k \in DOMAIN d /\ d[k].parent = n /\ d[k].inShadow
       /\ d[n].shadowKids # <<>> => d[n].hasShadow
       /\ d[n].parent # 0 =>
            /\ d[n].parent \in Elems(d)
            /\ n \in Range(d[d[n].parent].kids) \cup Range(d[d[n].parent].shadowKids)
       /\ \A i \in DOMAIN d[n].labels : d[n].labels[i] \in Elems(d) /\ d[d[n].labels[i]].tag = "LABEL"
       /\ d[n].slot # 0 =>
            /\ d[n].slot \in Elems(d) /\ d[d[n].slot].tag = "SLOT"
            /\ enclosingShadowRootOrDocument(d, d[n].slot) = d[n].parent
       /\ d[n].kind = "text" => d[n].kids = <<>> /\ d[n].parent # 0

\* <div><button>Click me</button></div>
DocMain ==
  <<Block("DIV", 0, <<2>>),
    El("BUTTON", 1, <<3>>),
    Text(2, <<"Click", " ", "me">>)>>

\* What the page does to the tree between and during passes: <<node, attribute, value>>
Mutations ==
  {<<2, "aria-label", <<"Save">>>>,
   <<1, "aria-hidden", <<"true">>>>}

-----------------------------------------------------------------------------
(* The state machine *)

\* The number of nested pass scopes followed
MaxScopes == 2

NoResult == [fn |-> "none"]

NoHistory(d) == [ih \in BOOLEAN |-> NoEntries(d)]

InitWith(d) ==
  /\ dom = d
  /\ cachesCounter = 0
  /\ cacheAccessibleName = UndefinedCache(d)
  /\ cacheAccessibleNameHidden = UndefinedCache(d)
  /\ cacheIsHidden = UndefinedCache(d)
  /\ result = NoResult
  /\ dirty = 0
  /\ firstInScope = NoHistory(d)
  /\ prevPass = NoResult

Init == InitWith(DocMain)

\* A faulty OrNewMap that never creates the map.
OrNewMapForgotten(c) == c

\* A faulty OrNewMap that assigns a new map on every begin (= for ??=).
OrNewMapAlways(c) == NewMap(dom)

\* cache ??= new Map()
OrNewMap(c) == IF c.on THEN c ELSE NewMap(dom)

\* A faulty DropsCaches that tests the counter before decrementing it.
DropsCachesPostDecrement(counterAfter) == counterAfter + 1 = 0

\* !--cachesCounter
DropsCaches(counterAfter) == counterAfter = 0

beginAriaCaches ==
  /\ cachesCounter < MaxScopes
  /\ cachesCounter' = cachesCounter + 1
  /\ cacheAccessibleName' = OrNewMap(cacheAccessibleName)
  /\ cacheAccessibleNameHidden' = OrNewMap(cacheAccessibleNameHidden)
  /\ cacheIsHidden' = OrNewMap(cacheIsHidden)
  /\ result' = NoResult
  /\ UNCHANGED <<dom, dirty, firstInScope, prevPass>>

endAriaCaches ==
  /\ cachesCounter > 0
  /\ cachesCounter' = cachesCounter - 1
  /\ IF DropsCaches(cachesCounter')
     THEN /\ cacheAccessibleName' = UndefinedCache(dom)
          /\ cacheAccessibleNameHidden' = UndefinedCache(dom)
          /\ cacheIsHidden' = UndefinedCache(dom)
     ELSE UNCHANGED <<cacheAccessibleName, cacheAccessibleNameHidden, cacheIsHidden>>
  /\ result' = NoResult
  /\ IF cachesCounter = 1
     THEN /\ prevPass' = (IF result.fn = "name" THEN result ELSE NoResult)
          /\ firstInScope' = NoHistory(dom)
          /\ dirty' = 0
     ELSE UNCHANGED <<prevPass, firstInScope, dirty>>
  /\ UNCHANGED dom

\* The state after getElementAccessibleName(e, includeHidden) returned r
Returned(e, includeHidden, r) ==
  /\ cacheAccessibleName' = IF includeHidden THEN cacheAccessibleName ELSE r.names
  /\ cacheAccessibleNameHidden' = IF includeHidden THEN r.names ELSE cacheAccessibleNameHidden
  /\ cacheIsHidden' = r.hidden
  /\ result' = [fn |-> "name", node |-> e, ih |-> includeHidden, val |-> r.s, ok |-> r.ok]
  /\ firstInScope' = IF cachesCounter > 0 /\ firstInScope[includeHidden][e] = <<>>
                     THEN [firstInScope EXCEPT ![includeHidden][e] = <<r.s>>]
                     ELSE firstInScope
  /\ UNCHANGED <<dom, cachesCounter, dirty, prevPass>>

\* A faulty SelectedCache that reads the same cache for both values.
SelectedCacheShared(includeHidden) == cacheAccessibleName

\* const cache = includeHidden ? cacheAccessibleNameHidden : cacheAccessibleName
SelectedCache(includeHidden) ==
  IF includeHidden THEN cacheAccessibleNameHidden ELSE cacheAccessibleName

getElementAccessibleName(e, includeHidden) ==
  Returned(e, includeHidden,
           NameCall(dom, e, includeHidden, SelectedCache(includeHidden), cacheIsHidden))

CallIsElementHiddenForAria(e) ==
  LET r == isElementHiddenForAria(dom, e, cacheIsHidden)
  IN /\ cacheIsHidden' = r.c
     /\ result' = [fn |-> "hidden", node |-> e, val |-> r.val]
     /\ UNCHANGED <<dom, cachesCounter, cacheAccessibleName, cacheAccessibleNameHidden,
                    dirty, firstInScope, prevPass>>

CallGetAriaRole(e) ==
  /\ result' = [fn |-> "role", node |-> e, val |-> getAriaRole(dom, e)]
  /\ UNCHANGED <<dom, cachesCounter, cacheAccessibleName, cacheAccessibleNameHidden,
                 cacheIsHidden, dirty, firstInScope, prevPass>>

\* element.setAttribute(name, value), by the page
setAttribute(m) ==
  /\ ~(hasAttribute(dom, m[1], m[2]) /\ dom[m[1]].attrs[m[2]] = m[3])
  /\ dom' = [dom EXCEPT ![m[1]] = With(@, m[2] :> m[3])]
  /\ dirty' = cachesCounter
  /\ result' = NoResult
  /\ UNCHANGED <<cachesCounter, cacheAccessibleName, cacheAccessibleNameHidden,
                 cacheIsHidden, firstInScope, prevPass>>

\* element.removeAttribute(name), by the page
removeAttribute(m) ==
  /\ hasAttribute(dom, m[1], m[2])
  /\ dom' = [dom EXCEPT ![m[1]].attrs = [a \in DOMAIN @ \ {m[2]} |-> @[a]]]
  /\ dirty' = cachesCounter
  /\ result' = NoResult
  /\ UNCHANGED <<cachesCounter, cacheAccessibleName, cacheAccessibleNameHidden,
                 cacheIsHidden, firstInScope, prevPass>>

Next ==
  \/ beginAriaCaches
  \/ endAriaCaches
  \/ \E e \in Elems(dom), includeHidden \in BOOLEAN : getElementAccessibleName(e, includeHidden)
  \/ \E e \in Elems(dom) : CallIsElementHiddenForAria(e)
  \/ \E m \in Mutations : setAttribute(m)
  \/ \E m \in Mutations : removeAttribute(m)

Spec == Init /\ [][Next]_vars

TypeOK ==
  /\ WellFormed(dom)
  /\ cachesCounter \in 0..MaxScopes
  /\ cacheAccessibleName.on \in BOOLEAN
  /\ result.fn \in {"none", "name", "hidden", "role", "disabled", "checked", "ariaChecked",
                    "level", "visits", "idRefs", "explicitRole"}

-----------------------------------------------------------------------------
(* Claims about the pass-scoped caches *)

\* What the engine computes on the tree d when no cache holds anything.
FreshName(d, e, includeHidden) ==
  NameCall(d, e, includeHidden, UndefinedCache(d), UndefinedCache(d)).s

FreshHidden(d, e) == isElementHiddenForAria(d, e, UndefinedCache(d)).val

AllCaches == <<cacheAccessibleName, cacheAccessibleNameHidden, cacheIsHidden>>

\* C1: when every endAriaCaches closes an open scope, the three caches exist
\* exactly while the count of open scopes is above zero, and once the count is
\* back at zero all three are gone, with no entry left.
C1_CachesExistWhileScopeOpen ==
  \A i \in 1..3 :
    /\ AllCaches[i].on = (cachesCounter > 0)
    /\ ~AllCaches[i].on => AllCaches[i].map = NoEntries(dom)

\* C1 witness: a scope in which a name was computed and cached has been closed,
\* the count is back at zero and the three caches are gone.
C1_Witness ==
  /\ cachesCounter = 0
  /\ prevPass.fn = "name"
  /\ \A i \in 1..3 : ~AllCaches[i].on

\* C2: as long as the tree has not changed since the current scope was opened
\* (or no scope is open), every name and every hidden-state returned is the one
\* computed from the tree as it is now: nothing computed in an earlier pass, on
\* an earlier tree, is returned.
C2_NothingCachedAcrossPasses ==
  dirty = 0 =>
    /\ result.fn = "name" => result.val = FreshName(dom, result.node, result.ih)
    /\ result.fn = "hidden" => result.val = FreshHidden(dom, result.node)
    /\ \A e \in Elems(dom) :
         /\ ~CacheMiss(cacheAccessibleName, e) =>
              cacheAccessibleName.map[e][1] = FreshName(dom, e, FALSE)
         /\ ~CacheMiss(cacheAccessibleNameHidden, e) =>
              cacheAccessibleNameHidden.map[e][1] = FreshName(dom, e, TRUE)
         /\ ~CacheMiss(cacheIsHidden, e) =>
              cacheIsHidden.map[e][1] =
                belongsToDisplayNoneOrAriaHiddenOrNonSlotted(dom, e, UndefinedCache(dom)).val

\* C2 witness: the first pass ended right after a name call on a node, the tree
\* changed while no scope was open, and the same call in the second pass
\* returned another string.
C2_Witness ==
  /\ cachesCounter > 0
  /\ dirty = 0
  /\ prevPass.fn = "name"
  /\ result.fn = "name"
  /\ result.node = prevPass.node
  /\ result.ih = prevPass.ih
  /\ result.val # prevPass.val

\* C3: while a scope is open, a name call returns the string that the first call
\* on that node with that includeHidden returned since the count last left zero,
\* whatever calls, nested begin/end pairs and tree changes came in between.
C3_SameNameWithinScope ==
  (cachesCounter > 0 /\ result.fn = "name") =>
    firstInScope[result.ih][result.node] = <<result.val>>

\* C3 witness: inside a nested scope, opened after the last change of the tree, a
\* name call returned the string cached before the change, which is no longer
\* what the tree gives.
C3_Witness ==
  /\ cachesCounter = 2
  /\ dirty = 1
  /\ result.fn = "name"
  /\ result.val # FreshName(dom, result.node, result.ih)
  /\ firstInScope[result.ih][result.node] = <<result.val>>

-----------------------------------------------------------------------------
(* Role resolution over a family of documents *)

\* The keys of kImplicitRoleByTagName, and a tag that is no key of it
RoleTags ==
  {"A", "AREA", "ARTICLE", "ASIDE", "BLOCKQUOTE", "BUTTON", "CAPTION", "CODE", "DATALIST",
   "DD", "DEL", "DETAILS", "DFN", "DIALOG", "DT", "EM", "FIELDSET", "FIGURE", "FOOTER",
   "FORM", "H1", "H2", "H3", "H4", "H5", "H6", "HEADER", "HR", "HTML", "IMG", "INPUT",
   "INS", "LI", "MAIN", "MARK", "MATH", "MENU", "METER", "NAV", "OL", "OPTGROUP", "OPTION",
   "OUTPUT", "P", "PROGRESS", "SECTION", "SELECT", "STRONG", "SUB", "SUP", "SVG", "TABLE",
   "TBODY", "TD", "TEXTAREA", "TFOOT", "TH", "THEAD", "TIME", "TR", "UL", "SPAN"}

\* Attribute sets an author puts on an element: role attributes that are valid,
\* abstract, unknown or a fallback list, with and without a global ARIA attribute
RoleDecorations ==
  {Attrs({}),
   Attrs({<<"aria-label", <<"x">>>>}),
   Attrs({<<"role", <<"presentation">>>>}),
   Attrs({<<"role", <<"none">>>>}),
   Attrs({<<"role", <<"presentation">>>>, <<"aria-label", <<"x">>>>}),
   Attrs({<<"role", <<"none">>>>, <<"aria-busy", <<"true">>>>}),
   Attrs({<<"role", <<"button">>>>}),
   Attrs({<<"role", <<"widget">>>>}),
   Attrs({<<"role", <<"mark">>>>}),
   Attrs({<<"role", <<"foo", " ", "list">>>>}),
   Attrs({<<"href", <<"x">>>>}),
   Attrs({<<"alt", <<>>>>})}

\* The decorations put on the elements of a chain
ChainDecorations ==
  {Attrs({}),
   Attrs({<<"role", <<"presentation">>>>}),
   Attrs({<<"role", <<"none">>>>}),
   Attrs({<<"role", <<"presentation">>>>, <<"aria-label", <<"x">>>>})}

\* Parent-to-child tag chains: those of kPresentationInheritanceParents, and two
\* that a tag outside the table breaks
RoleChains ==
  {<<"UL", "LI">>, <<"OL", "LI">>, <<"DL", "DT">>, <<"DL", "DD">>, <<"DL", "DIV", "DD">>,
   <<"DL", "DIV", "DT">>, <<"TABLE", "TR", "TD">>, <<"TABLE", "TBODY", "TR", "TD">>,
   <<"TABLE", "THEAD", "TR", "TH">>, <<"TABLE", "TFOOT", "TR">>, <<"DIV", "LI">>,
   <<"UL", "DIV", "LI">>}

\* <tag1 ...><tag2 ...>...</tag2></tag1>
ChainDoc(tags, decoration) ==
  [i \in 1..Len(tags) |->
     With(El(tags[i], i - 1, IF i < Len(tags) THEN <<i + 1>> ELSE <<>>), decoration[i])]

RoleDocs ==
  {<<With(El(tag, 0, <<>>), as)>> : tag \in RoleTags, as \in RoleDecorations}
  \cup UNION {{ChainDoc(tags, deco) : deco \in [1..Len(tags) -> ChainDecorations]} :
              tags \in RoleChains}

InitRole == \E d \in RoleDocs : InitWith(d)

NextRole == \E e \in Elems(dom) : CallGetAriaRole(e)

SpecRole == InitRole /\ [][NextRole]_vars

\* C6: getAriaRole returns no role or one of the valid concrete roles.
C6_RoleIsValidOrNull ==
  result.fn = "role" => (result.val = Null \/ result.val \in validRoles)

\* The first ancestor of e, up the unbroken chain of child/allowed-parent tag
\* pairs, with explicit role none/presentation and no global ARIA attribute;
\* 0 when there is none.
RECURSIVE PresentationalAncestor(_, _)
PresentationalAncestor(d, e) ==
  LET parent == parentElementOrShadowHost(d, e)
  IN IF parent = 0 \/ d[parent].tag \notin kPresentationInheritanceParents(d[e].tag)
     THEN 0
     ELSE IF /\ getExplicitAriaRole(d, parent) \in {"none", "presentation"}
             /\ ~hasGlobalAriaAttribute(d, parent)
          THEN parent
          ELSE PresentationalAncestor(d, parent)

\* C7: an element with no explicit role, of a tag the table gives a role to, takes
\* the none/presentation of the first ancestor in the unbroken tag chain that has
\* explicit role none/presentation and no global ARIA attribute; an li in a
\* ul role=presentation resolves to presentation.
C7_PresentationInherited ==
  (/\ result.fn = "role"
   /\ getExplicitAriaRole(dom, result.node) = Null
   /\ kImplicitRoleByTagName(dom, result.node, tagUpper(dom[result.node].tag)) # ""
   /\ PresentationalAncestor(dom, result.node) # 0)
  => result.val = getExplicitAriaRole(dom, PresentationalAncestor(dom, result.node))

\* C8: for an element with explicit role none/presentation and a global ARIA
\* attribute, getAriaRole returns the implicit role, not none/presentation.
C8_GlobalAttributeCancelsPresentation ==
  (/\ result.fn = "role"
   /\ getExplicitAriaRole(dom, result.node) \in {"none", "presentation"}
   /\ hasGlobalAriaAttribute(dom, result.node))
  => result.val = getImplicitAriaRole(dom, result.node)

-----------------------------------------------------------------------------
(* Name computation over documents with reference cycles *)

\* <div id=a><label id=b>L</label><input id=c value=v></div>
CycleDocSiblings ==
  <<With(Block("DIV", 0, <<2, 4>>), Attrs({<<"id", <<"a">>>>})),
    With(El("LABEL", 1, <<3>>), Attrs({<<"id", <<"b">>>>})),
    Text(2, <<"L">>),
    [With(El("INPUT", 1, <<>>), Attrs({<<"id", <<"c">>>>})) EXCEPT !.value = <<"v">>]>>

\* <div id=a><label id=b>L<button id=c>B</button></label></div>
CycleDocNested ==
  <<With(Block("DIV", 0, <<2>>), Attrs({<<"id", <<"a">>>>})),
    With(El("LABEL", 1, <<3, 4>>), Attrs({<<"id", <<"b">>>>})),
    Text(2, <<"L">>),
    With(El("BUTTON", 2, <<5>>), Attrs({<<"id", <<"c">>>>})),
    Text(4, <<"B">>)>>

\* The values of aria-labelledby and aria-owns put on the three elements
\* (<<>> stands for no attribute)
CycleLabelledBy == {<<>>, <<"a">>, <<"c">>, <<"b", " ", "c">>}

CycleOwns == {<<>>, <<"a">>}

\* e, with aria-labelledby=lb and aria-owns=ow where these are given
Referencing(node, lb, ow) ==
  With(node, Attrs((IF lb = <<>> THEN {} ELSE {<<"aria-labelledby", lb>>})
                   \cup (IF ow = <<>> THEN {} ELSE {<<"aria-owns", ow>>})))

CycleDocs ==
  {[n \in DOMAIN base |->
      IF n \notin {1, 2, 4} THEN base[n]
      ELSE LET i == CASE n = 1 -> 1 [] n = 2 -> 2 [] OTHER -> 3
               e == Referencing(base[n], lb[i], ow[i])
           IN IF n = 4 /\ labelled THEN [e EXCEPT !.labels = <<2>>] ELSE e] :
     base \in {CycleDocSiblings, CycleDocNested},
     lb \in [1..3 -> CycleLabelledBy],
     ow \in [1..3 -> CycleOwns],
     labelled \in BOOLEAN}

InitCycle == \E d \in CycleDocs : InitWith(d)

NextCycle ==
  \E e \in Elems(dom), includeHidden \in BOOLEAN : getElementAccessibleName(e, includeHidden)

SpecCycle == InitCycle /\ [][NextCycle]_vars

\* C4: whatever aria-labelledby, aria-owns and label associations the tree has,
\* self-references and cycles included, getElementAccessibleName returns a
\* string: no chain of nested worker calls outgrows twice the number of elements.
C4_NameCallReturns ==
  result.fn = "name" => (result.ok /\ result.val \in Seq(STRING))

\* C4 witness: the control lies inside the element its aria-labelledby points at,
\* its label points back at it with aria-labelledby and at itself, and the call
\* on the control returned a non-empty name.
C4_Witness ==
  /\ result.fn = "name"
  /\ result.node = 4
  /\ 4 \in DescendantSet(dom, 1)
  /\ 1 \in Range(getIdRefs(dom, 4, getAttributeOrEmpty(dom, 4, "aria-labelledby")))
  /\ 4 \in Range(getIdRefs(dom, 2, getAttributeOrEmpty(dom, 2, "aria-labelledby")))
  /\ 2 \in Range(getIdRefs(dom, 2, getAttributeOrEmpty(dom, 2, "aria-labelledby")))
  /\ dom[4].labels = <<2>>
  /\ result.ok
  /\ result.val # <<>>

-----------------------------------------------------------------------------
(* Name computation over buttons, labelled inputs and strings with whitespace *)

\* The longest attribute value or text, in characters, of the whitespace documents
MaxLen == 3

\* The characters of those strings: a letter and the whitespace the flat string
\* is about (space, tab, line feed, carriage return, no-break space)
Chars == {"a", " ", "\t", "\n", "\r", "nbsp"}

Strings(n) == UNION {[1..k -> Chars] : k \in 0..n}

\* <button aria-label=s>b</button> and <button>s</button>
WhitespaceDocs ==
  {<<With(El("BUTTON", 0, <<2>>), Attrs({<<"aria-label", str>>})), Text(1, <<"b">>)>> :
     str \in Strings(MaxLen)}
  \cup {<<El("BUTTON", 0, <<2>>), Text(1, str)>> : str \in Strings(MaxLen - 1)}

\* The attribute sets of the control of a button document
ButtonAttrs ==
  {Attrs(al \cup lb \cup ro \cup hi \cup {<<"title", <<"Tip">>>>}) :
     al \in {{}, {<<"aria-label", <<"Save">>>>}, {<<"aria-label", <<" ">>>>},
             {<<"aria-label", <<" ", "Save", " ">>>>}},
     lb \in {{}, {<<"aria-labelledby", <<"x">>>>}, {<<"aria-labelledby", <<"x", " ", "y">>>>},
             {<<"aria-labelledby", <<"z">>>>}, {<<"aria-labelledby", <<>>>>}},
     ro \in {{}, {<<"role", <<"paragraph">>>>}},
     hi \in {{}, {<<"aria-hidden", <<"true">>>>}}}

\* <div><button ...>Click me</button><span id=x>tx</span><span id=y></span></div>
\* and the same with <input type=button value=Go ...>Click me for the button
ButtonDoc(asInput, as, tx) ==
  <<Block("DIV", 0, IF asInput THEN <<2, 3, 4, 6>> ELSE <<2, 4, 6>>),
    IF asInput
    THEN [With(El("INPUT", 1, <<>>), as @@ Attrs({<<"value", <<"Go">>>>}))
            EXCEPT !.type = "button", !.value = <<"Go">>]
    ELSE With(El("BUTTON", 1, <<3>>), as),
    Text(IF asInput THEN 1 ELSE 2, <<"Click", " ", "me">>),
    With(El("SPAN", 1, <<5>>), Attrs({<<"id", <<"x">>>>})),
    Text(4, tx),
    With(El("SPAN", 1, <<7>>), Attrs({<<"id", <<"y">>>>})),
    Text(6, <<>>)>>

ButtonDocs ==
  {ButtonDoc(asInput, as, tx) :
     asInput \in BOOLEAN, as \in ButtonAttrs, tx \in {<<>>, <<"T">>}}

LabelTexts == {<<"User", " ", "name">>, <<>>, <<" ">>, <<" ", "B", " ", " ">>}

\* <div><input type=.. ..><label>t1</label><label>t2</label></div>, the input's
\* labels being the first label or both
LabelDoc(type, as, texts) ==
  <<Block("DIV", 0, <<2, 3, 5>>),
    [With(El("INPUT", 1, <<>>), as) EXCEPT
       !.type = type, !.labels = IF Len(texts) = 1 THEN <<3>> ELSE <<3, 5>>],
    El("LABEL", 1, <<4>>),
    Text(3, texts[1]),
    El("LABEL", 1, <<6>>),
    Text(5, IF Len(texts) = 1 THEN <<"other">> ELSE texts[2])>>

LabelDocs ==
  {LabelDoc(type, Attrs(pl \cup ti \cup hi), texts) :
     type \in {"text", "email"},
     pl \in {{}, {<<"placeholder", <<"P">>>>}},
     ti \in {{}, {<<"title", <<"T">>>>}},
     hi \in {{}, {<<"aria-hidden", <<"true">>>>}},
     texts \in [1..1 -> LabelTexts] \cup [1..2 -> LabelTexts]}

\* <table ..><caption>t</caption><tr><td>x</td></tr></table>, and the same
\* table without the caption
TableDoc(hasCaption, as, t) ==
  IF hasCaption
  THEN <<With(Block("TABLE", 0, <<2, 4>>), as),
         Block("CAPTION", 1, <<3>>),
         Text(2, t),
         Block("TR", 1, <<5>>),
         Block("TD", 4, <<6>>),
         Text(5, <<"x">>)>>
  ELSE <<With(Block("TABLE", 0, <<2>>), as),
         Block("TR", 1, <<3>>),
         Block("TD", 2, <<4>>),
         Text(3, <<"x">>)>>

TableDocs ==
  {TableDoc(hasCaption, Attrs(su \cup ti \cup hi), t) :
     hasCaption \in BOOLEAN,
     su \in {{}, {<<"summary", <<"Items">>>>}},
     ti \in {{}, {<<"title", <<"T">>>>}},
     hi \in {{}, {<<"aria-hidden", <<"true">>>>}},
     t \in {<<"Inventory">>, <<>>}}

NameDocs == WhitespaceDocs \cup ButtonDocs \cup LabelDocs \cup TableDocs

InitName == \E d \in NameDocs : InitWith(d)

NextName ==
  \E e \in Elems(dom), includeHidden \in BOOLEAN : getElementAccessibleName(e, includeHidden)

SpecName == InitName /\ [][NextName]_vars

\* C5: the returned name has no two consecutive whitespace characters, no
\* carriage return and no leading or trailing whitespace.
C5_NameIsFlatString ==
  result.fn = "name" =>
    LET n == result.val
    IN /\ \A i \in 1..(Len(n) - 1) : ~(IsWs(n[i]) /\ IsWs(n[i + 1]))
       /\ \A i \in 1..Len(n) : n[i] # "\r"
       /\ n # <<>> => ~IsWs(n[1]) /\ ~IsWs(n[Len(n)])

\* Every element that aria-labelledby of e refers to has blank text.
LabelledByYieldsNoText(d, e) ==
  \A r \in Range(getIdRefs(d, e, getAttributeOrEmpty(d, e, "aria-labelledby"))) :
    Trim(textContent(d, r)) = <<>>

\* C9: for a visible target whose role does not prohibit naming and whose
\* aria-labelledby, if any, yields no text, a non-blank aria-label is the name
\* (as a flat string), ahead of value, content and title; a button with
\* aria-label "Save" and text "Click me" is named "Save".
C9_AriaLabelIsTheName ==
  (/\ result.fn = "name"
   /\ dom[result.node].tag \in {"BUTTON", "INPUT"}
   /\ ~FreshHidden(dom, result.node)
   /\ RoleOrEmpty(dom, result.node) \notin kNamingProhibitedRoles
   /\ LabelledByYieldsNoText(dom, result.node)
   /\ Trim(getAttributeOrEmpty(dom, result.node, "aria-label")) # <<>>)
  => result.val = normalizeAccessbileName(getAttributeOrEmpty(dom, result.node, "aria-label"))

\* The text of the labels of e, one string per label, in label order
LabelTextsOf(d, e) == [i \in DOMAIN d[e].labels |-> textContent(d, d[e].labels[i])]

\* a, b, c joined as "a b c"
RECURSIVE SpaceSeparated(_)
SpaceSeparated(parts) ==
  IF parts = <<>> THEN <<>>
  ELSE IF Len(parts) = 1 THEN parts[1]
  ELSE parts[1] \o <<" ">> \o SpaceSeparated(Tail(parts))

\* The flat string of the non-empty texts of the labels of e, joined in label
\* order by single spaces
JoinedLabelTexts(d, e) ==
  normalizeAccessbileName(
    SpaceSeparated(SelectSeq(LabelTextsOf(d, e), LAMBDA t : t # <<>>)))

\* A text input with associated labels and neither aria-label nor aria-labelledby
\* has been named.
TextInputWithLabelsNamed ==
  /\ result.fn = "name"
  /\ dom[result.node].tag = "INPUT"
  /\ dom[result.node].type \in {"text", "email"}
  /\ dom[result.node].labels # <<>>
  /\ ~hasAttribute(dom, result.node, "aria-label")
  /\ ~hasAttribute(dom, result.node, "aria-labelledby")

-----------------------------------------------------------------------------
(* Tables *)

\* A table with neither aria-label nor aria-labelledby has been named, and is
\* not hidden for semantics unless hidden nodes are included.
TableNamed ==
  /\ result.fn = "name"
  /\ dom[result.node].tag = "TABLE"
  /\ ~hasAttribute(dom, result.node, "aria-label")
  /\ ~hasAttribute(dom, result.node, "aria-labelledby")
  /\ result.ih \/ ~FreshHidden(dom, result.node)

\* The first caption child of the table e, 0 for none
captionOf(d, e) ==
  LET caps == SelectSeq(d[e].kids, LAMBDA k : d[k].tag = "CAPTION")
  IN IF caps = <<>> THEN 0 ELSE caps[1]

\* C11: a table with a caption child is named by the caption, whether or not it
\* has a summary attribute (caption "Inventory" wins over summary "Items"); a
\* table without caption child and with a summary attribute is named by the
\* summary. So the summary is the name only when there is no caption child.
C11_CaptionWinsOverSummary ==
  TableNamed =>
    /\ captionOf(dom, result.node) # 0 =>
         result.val = normalizeAccessbileName(textContent(dom, captionOf(dom, result.node)))
    /\ (captionOf(dom, result.node) = 0 /\ hasAttribute(dom, result.node, "summary")) =>
         result.val = normalizeAccessbileName(dom[result.node].attrs["summary"])

\* C11 witness: a table with caption "Inventory" and summary "Items" has been
\* named "Inventory".
C11_Witness ==
  /\ TableNamed
  /\ captionOf(dom, result.node) # 0
  /\ textContent(dom, captionOf(dom, result.node)) = <<"Inventory">>
  /\ getAttributeOrEmpty(dom, result.node, "summary") = <<"Items">>
  /\ result.val = <<"Inventory">>

-----------------------------------------------------------------------------
(* State property extractors *)

kAriaCheckedRoles ==
  {"checkbox", "menuitemcheckbox", "option", "radio", "switch", "menuitemradio", "treeitem"}

\* A faulty getChecked that recognises aria-checked="mixed" whatever allowMixed is.
getCheckedAlwaysMixed(d, e, allowMixed) ==
  IF allowMixed /\ d[e].tag = "INPUT" /\ d[e].indeterminate THEN "mixed"
  ELSE IF d[e].tag = "INPUT" /\ d[e].type \in {"checkbox", "radio"}
  THEN (IF d[e].checked THEN "true" ELSE "false")
  ELSE IF RoleOrEmpty(d, e) \in kAriaCheckedRoles
  THEN (IF attributeIs(d, e, "aria-checked", "true") THEN "true"
        ELSE IF attributeIs(d, e, "aria-checked", "mixed") THEN "mixed"
        ELSE "false")
  ELSE "error"

\* getChecked: boolean | 'mixed' | 'error', as "true", "false", "mixed", "error"
getChecked(d, e, allowMixed) ==
  IF allowMixed /\ d[e].tag = "INPUT" /\ d[e].indeterminate THEN "mixed"
  ELSE IF d[e].tag = "INPUT" /\ d[e].type \in {"checkbox", "radio"}
  THEN (IF d[e].checked THEN "true" ELSE "false")
  ELSE IF RoleOrEmpty(d, e) \in kAriaCheckedRoles
  THEN (IF attributeIs(d, e, "aria-checked", "true") THEN "true"
        ELSE IF allowMixed /\ attributeIs(d, e, "aria-checked", "mixed") THEN "mixed"
        ELSE "false")
  ELSE "error"

\* result === 'error' ? false : result
ErrorToFalse(r) == IF r = "error" THEN "false" ELSE r

getAriaChecked(d, e) == ErrorToFalse(getChecked(d, e, TRUE))

kAriaLevelRoles == {"heading", "listitem", "row", "treeitem"}

\* { 'H1': 1, ..., 'H6': 6 }[element.tagName], 0 for undefined
NativeLevel(tag) ==
  CASE tag = "H1" -> 1
    [] tag = "H2" -> 2
    [] tag = "H3" -> 3
    [] tag = "H4" -> 4
    [] tag = "H5" -> 5
    [] tag = "H6" -> 6
    [] OTHER -> 0

\* What getAriaLevel makes of Number(attr): a faulty variant that accepts every
\* integer, and the one of the source
LevelOfAnyInteger(n) == IF ~n.nan /\ n.int THEN n.val ELSE 0

LevelOf(n) == IF ~n.nan /\ n.int /\ n.val >= 1 THEN n.val ELSE 0

getAriaLevel(d, e) ==
  IF NativeLevel(d[e].tag) # 0 THEN NativeLevel(d[e].tag)
  ELSE IF RoleOrEmpty(d, e) \in kAriaLevelRoles /\ hasAttribute(d, e, "aria-level")
  THEN LevelOf(JsNumber(d[e].attrs["aria-level"]))
  ELSE 0

kAriaDisabledRoles ==
  {"application", "button", "composite", "gridcell", "group", "input", "link", "menuitem",
   "scrollbar", "separator", "tab", "checkbox", "columnheader", "combobox", "grid",
   "listbox", "menu", "menubar", "menuitemcheckbox", "menuitemradio", "option", "radio",
   "radiogroup", "row", "rowheader", "searchbox", "select", "slider", "spinbutton",
   "switch", "tablist", "textbox", "toolbar", "tree", "treegrid", "treeitem"}

isNativeFormControl(d, e) ==
  d[e].tag \in {"BUTTON", "INPUT", "SELECT", "TEXTAREA", "OPTION", "OPTGROUP"}

\* A faulty belongsToDisabledFieldSet that walks up through shadow hosts.
RECURSIVE belongsToDisabledFieldSetAcrossShadow(_, _)
belongsToDisabledFieldSetAcrossShadow(d, e) ==
  IF e = 0 THEN FALSE
  ELSE IF d[e].tag = "FIELDSET" /\ hasAttribute(d, e, "disabled") THEN TRUE
  ELSE belongsToDisabledFieldSetAcrossShadow(d, parentElementOrShadowHost(d, e))

RECURSIVE belongsToDisabledFieldSet(_, _)
belongsToDisabledFieldSet(d, e) ==
  IF e = 0 THEN FALSE
  ELSE IF d[e].tag = "FIELDSET" /\ hasAttribute(d, e, "disabled") THEN TRUE
  ELSE belongsToDisabledFieldSet(d, parentElement(d, e))

RECURSIVE hasExplicitAriaDisabled(_, _)
hasExplicitAriaDisabled(d, e) ==
  IF e = 0 THEN FALSE
  ELSE IF RoleOrEmpty(d, e) \in kAriaDisabledRoles
          /\ ToLower(getAttributeOrEmpty(d, e, "aria-disabled")) = <<"true">>
  THEN TRUE
  ELSE IF RoleOrEmpty(d, e) \in kAriaDisabledRoles
          /\ ToLower(getAttributeOrEmpty(d, e, "aria-disabled")) = <<"false">>
  THEN FALSE
  ELSE hasExplicitAriaDisabled(d, parentElementOrShadowHost(d, e))

getAriaDisabled(d, e) ==
  IF isNativeFormControl(d, e)
     /\ (hasAttribute(d, e, "disabled") \/ belongsToDisabledFieldSet(d, e))
  THEN TRUE
  ELSE hasExplicitAriaDisabled(d, e)

\* The calls of the element-state inspector
Extracted(r) ==
  /\ result' = r
  /\ UNCHANGED <<dom, cachesCounter, cacheAccessibleName, cacheAccessibleNameHidden,
                 cacheIsHidden, dirty, firstInScope, prevPass>>

CallGetAriaDisabled(e) ==
  Extracted([fn |-> "disabled", node |-> e, val |-> getAriaDisabled(dom, e)])

CallGetChecked(e, allowMixed) ==
  Extracted([fn |-> "checked", node |-> e, allowMixed |-> allowMixed,
             val |-> getChecked(dom, e, allowMixed)])

CallGetAriaChecked(e) ==
  Extracted([fn |-> "ariaChecked", node |-> e, val |-> getAriaChecked(dom, e)])

CallGetAriaLevel(e) ==
  Extracted([fn |-> "level", node |-> e, val |-> getAriaLevel(dom, e)])

\* outer > middle > control, where the middle element or the control may be the
\* child of a shadow root attached to its parent
DisabledShapes == {"light", "middleInShadow", "controlInShadow"}

DisabledDoc(shape, outer, middle, control) ==
  <<[outer EXCEPT !.parent = 0,
                  !.kids = IF shape = "middleInShadow" THEN <<>> ELSE <<2>>,
                  !.hasShadow = (shape = "middleInShadow"),
                  !.shadowKids = IF shape = "middleInShadow" THEN <<2>> ELSE <<>>],
    [middle EXCEPT !.parent = 1,
                   !.inShadow = (shape = "middleInShadow"),
                   !.kids = IF shape = "controlInShadow" THEN <<>> ELSE <<3>>,
                   !.hasShadow = (shape = "controlInShadow"),
                   !.shadowKids = IF shape = "controlInShadow" THEN <<3>> ELSE <<>>],
    [control EXCEPT !.parent = 2, !.inShadow = (shape = "controlInShadow")]>>

\* aria-disabled on an element with no role of its own and on a group
AriaDisabledDecorations ==
  {Attrs({}),
   Attrs({<<"aria-disabled", <<"true">>>>}),
   Attrs({<<"aria-disabled", <<"false">>>>}),
   Attrs({<<"role", <<"group">>>>, <<"aria-disabled", <<"true">>>>}),
   Attrs({<<"role", <<"group">>>>, <<"aria-disabled", <<"false">>>>})}

Containers ==
  {With(El("DIV", 0, <<>>), as) : as \in AriaDisabledDecorations}
  \cup {With(El("FIELDSET", 0, <<>>), as) :
          as \in {Attrs({}), Attrs({<<"aria-disabled", <<"true">>>>}),
                  Attrs({<<"disabled", <<>>>>}),
                  Attrs({<<"disabled", <<>>>>, <<"aria-disabled", <<"false">>>>})}}

MiddleContainers ==
  {With(El("DIV", 0, <<>>), as) :
     as \in {Attrs({}), Attrs({<<"aria-disabled", <<"true">>>>}),
             Attrs({<<"role", <<"group">>>>, <<"aria-disabled", <<"false">>>>})}}
  \cup {With(El("FIELDSET", 0, <<>>), Attrs({<<"disabled", <<>>>>}))}

Controls ==
  {With(El(tag, 0, <<>>), as) :
     tag \in {"BUTTON", "INPUT", "SELECT", "TEXTAREA", "OPTION", "OPTGROUP", "DIV"},
     as \in {Attrs({}), Attrs({<<"disabled", <<>>>>}),
             Attrs({<<"aria-disabled", <<"true">>>>}),
             Attrs({<<"aria-disabled", <<"false">>>>}),
             Attrs({<<"aria-disabled", <<"TRUE">>>>})}}

DisabledDocs ==
  {DisabledDoc(shape, outer, middle, control) :
     shape \in DisabledShapes, outer \in Containers, middle \in MiddleContainers,
     control \in Controls}

\* <input type=.. role=.. aria-checked=..> with its checked and indeterminate
\* flags, and <div role=.. aria-checked=..>
CheckedDecorations ==
  {Attrs(ro \cup ch) :
     ro \in {{}} \cup {{<<"role", <<r>>>>} : r \in {"checkbox", "switch", "button"}},
     ch \in {{}} \cup {{<<"aria-checked", <<c>>>>} : c \in {"true", "false", "mixed", "x"}}}

CheckedDocs ==
  {<<[With(El("INPUT", 0, <<>>), as) EXCEPT !.type = type, !.checked = checked,
                                            !.indeterminate = indeterminate]>> :
     as \in CheckedDecorations, type \in {"checkbox", "radio", "text"},
     checked \in BOOLEAN, indeterminate \in BOOLEAN}
  \cup {<<With(El("DIV", 0, <<>>), as)>> : as \in CheckedDecorations}

\* Values of aria-level: integers, other numbers, other words, padded and empty
LevelValues ==
  {<<w>> : w \in {"0", "1", "2", "3", "7", "-1", "1.5", "1e1", "+2", "007", "x", "two"}}
  \cup {<<>>, <<" ">>, <<" ", "2", " ">>, <<"2", " ", "3">>}

LevelDecorations ==
  {Attrs(ro \cup le) :
     ro \in {{}} \cup {{<<"role", <<r>>>>} :
                        r \in {"heading", "listitem", "row", "treeitem", "button"}},
     le \in {{}} \cup {{<<"aria-level", v>>} : v \in LevelValues}}

LevelDocs ==
  {<<With(El(tag, 0, <<>>), as)>> :
     tag \in {"H1", "H2", "H3", "H4", "H5", "H6", "DIV", "LI", "TR"},
     as \in LevelDecorations}

StateDocs == DisabledDocs \cup CheckedDocs \cup LevelDocs

InitState == \E d \in StateDocs : InitWith(d)

NextState ==
  \/ \E e \in Elems(dom) : CallGetAriaDisabled(e)
  \/ \E e \in Elems(dom), allowMixed \in BOOLEAN : CallGetChecked(e, allowMixed)
  \/ \E e \in Elems(dom) : CallGetAriaChecked(e)
  \/ \E e \in Elems(dom) : CallGetAriaLevel(e)

SpecState == InitState /\ [][NextState]_vars

-----------------------------------------------------------------------------
(* Claims about the disabled state *)

\* getAriaDisabled has answered for a native form control.
NativeControlAsked ==
  /\ result.fn = "disabled"
  /\ dom[result.node].tag \in {"BUTTON", "INPUT", "SELECT", "TEXTAREA", "OPTION", "OPTGROUP"}

\* The disabled fieldsets among the nodes of the chain
DisabledFieldSets(d, chain) ==
  {a \in Range(chain) : d[a].tag = "FIELDSET" /\ hasAttribute(d, a, "disabled")}

\* No node from e upward, through parents and shadow hosts, has aria-disabled.
NoAriaDisabledAbove(d, e) ==
  \A a \in Range(ChainCrossShadow(d, e)) : ~hasAttribute(d, a, "aria-disabled")

\* C12: a native form control reports disabled = true when it has the disabled
\* attribute or when one of its ancestors through light-tree parents only is a
\* fieldset with the disabled attribute; a disabled fieldset outside the shadow
\* root that contains the control does not disable it: with no disabled
\* attribute, no disabled fieldset among its light-tree ancestors and no
\* aria-disabled on its chain, the control reports disabled = false.
C12_DisabledByAttributeOrLightFieldset ==
  NativeControlAsked =>
    /\ (\/ hasAttribute(dom, result.node, "disabled")
        \/ DisabledFieldSets(dom, ChainLight(dom, result.node)) # {}) => result.val = TRUE
    /\ (/\ ~hasAttribute(dom, result.node, "disabled")
        /\ DisabledFieldSets(dom, ChainLight(dom, result.node)) = {}
        /\ NoAriaDisabledAbove(dom, result.node)) => result.val = FALSE

\* C12 witness: an input without the disabled attribute, inside a disabled
\* fieldset of its own light tree, reports disabled = true.
C12_Witness ==
  /\ NativeControlAsked
  /\ dom[result.node].tag = "INPUT"
  /\ ~hasAttribute(dom, result.node, "disabled")
  /\ DisabledFieldSets(dom, ChainLight(dom, result.node)) # {}
  /\ result.val = TRUE

\* A control in a shadow root, whose only disabled fieldset lies outside that
\* shadow root, reports disabled = false.
C12_FieldsetOutsideShadowRoot ==
  /\ NativeControlAsked
  /\ DisabledFieldSets(dom, ChainLight(dom, result.node)) = {}
  /\ DisabledFieldSets(dom, ChainCrossShadow(dom, result.node)) # {}
  /\ result.val = FALSE

\* The nodes of the chain that set aria-disabled to "true" or to "false"
SetsAriaDisabled(d, chain) ==
  SelectSeq(chain, LAMBDA a : attributeIs(d, a, "aria-disabled", "true")
                              \/ attributeIs(d, a, "aria-disabled", "false"))

\* The native rule of getAriaDisabled applies to the element e.
NativelyDisabled(d, e) ==
  /\ d[e].tag \in {"BUTTON", "INPUT", "SELECT", "TEXTAREA", "OPTION", "OPTGROUP"}
  /\ hasAttribute(d, e, "disabled") \/ DisabledFieldSets(d, ChainLight(d, e)) # {}

\* C13: an element reports disabled = true whenever the nearest node on its
\* upward chain (itself, then parents and shadow hosts) that sets aria-disabled
\* to "true" or "false" sets it to "true", whatever the role of that node; when
\* no node of the chain sets it, this rule gives false, so an element that is
\* not disabled natively reports disabled = false.
C13_NearestAriaDisabledDecides ==
  result.fn = "disabled" =>
    LET setters == SetsAriaDisabled(dom, ChainCrossShadow(dom, result.node))
    IN /\ (setters # <<>> /\ attributeIs(dom, setters[1], "aria-disabled", "true"))
            => result.val = TRUE
       /\ (setters = <<>> /\ ~NativelyDisabled(dom, result.node)) => result.val = FALSE

-----------------------------------------------------------------------------
(* Claims about the checked state and the level *)

\* getChecked has answered for an element of role checkbox with aria-checked="mixed".
MixedCheckboxAsked ==
  /\ result.fn = "checked"
  /\ getAriaRole(dom, result.node) = "checkbox"
  /\ attributeIs(dom, result.node, "aria-checked", "mixed")

\* <input type=checkbox> and <input type=radio>
NativeCheckable(d, e) == d[e].tag = "INPUT" /\ d[e].type \in {"checkbox", "radio"}

\* getChecked called with allowMixed = false never returns "mixed", and
\* getAriaChecked never returns the sentinel 'error'.
NoMixedUnlessAllowedAndNoSentinel ==
  /\ (result.fn = "checked" /\ ~result.allowMixed) => result.val # "mixed"
  /\ result.fn = "ariaChecked" => result.val \in {"true", "false", "mixed"}

\* C14: an element of role checkbox with aria-checked="mixed" reports "mixed"
\* from getChecked when mixed values are allowed and false when they are not;
\* getChecked with allowMixed = false never returns "mixed", and getAriaChecked
\* never returns the not-applicable sentinel.
C14_MixedCheckbox ==
  /\ MixedCheckboxAsked => result.val = (IF result.allowMixed THEN "mixed" ELSE "false")
  /\ NoMixedUnlessAllowedAndNoSentinel

\* C14, amended: the same for an element of role checkbox that is not a native
\* checkbox or radio input; a native checkbox or radio input reports "mixed"
\* when it is indeterminate and mixed values are allowed, and its checked flag
\* otherwise, whatever its aria-checked attribute.
C14_MixedCheckboxUnlessNative ==
  /\ (MixedCheckboxAsked /\ ~NativeCheckable(dom, result.node))
       => result.val = (IF result.allowMixed THEN "mixed" ELSE "false")
  /\ (result.fn = "checked" /\ NativeCheckable(dom, result.node))
       => result.val = (IF result.allowMixed /\ dom[result.node].indeterminate THEN "mixed"
                        ELSE IF dom[result.node].checked THEN "true" ELSE "false")
  /\ NoMixedUnlessAllowedAndNoSentinel

\* C14 witness: <div role="checkbox" aria-checked="mixed"> has reported "mixed"
\* to a caller that allows mixed values.
C14_Witness ==
  /\ MixedCheckboxAsked
  /\ dom[result.node].tag = "DIV"
  /\ result.allowMixed
  /\ result.val = "mixed"

\* The element e has one of the roles heading, listitem, row, treeitem and an
\* aria-level attribute whose value is the number of an integer >= 1.
HasLevelAttribute(d, e) ==
  /\ getAriaRole(d, e) \in {"heading", "listitem", "row", "treeitem"}
  /\ hasAttribute(d, e, "aria-level")
  /\ ~JsNumber(d[e].attrs["aria-level"]).nan
  /\ JsNumber(d[e].attrs["aria-level"]).int
  /\ JsNumber(d[e].attrs["aria-level"]).val >= 1

HeadingTags == <<"H1", "H2", "H3", "H4", "H5", "H6">>

\* C15: getAriaLevel always returns a non-negative integer: h1..h6 give 1..6;
\* otherwise, for the roles heading, listitem, row and treeitem, an aria-level
\* that parses to an integer >= 1 gives that integer; every other case
\* (attribute missing, empty, not a number, not an integer, zero, negative, or a
\* role outside the list) gives 0.
C15_LevelIsNativeOrAriaLevelOrZero ==
  result.fn = "level" =>
    /\ result.val \in Nat
    /\ \A i \in 1..6 : dom[result.node].tag = HeadingTags[i] => result.val = i
    /\ dom[result.node].tag \notin Range(HeadingTags) =>
         result.val = (IF HasLevelAttribute(dom, result.node)
                       THEN JsNumber(dom[result.node].attrs["aria-level"]).val
                       ELSE 0)

\* C15 witness: <div role="heading" aria-level="3"> has level 3.
C15_Witness ==
  /\ result.fn = "level"
  /\ dom[result.node].tag = "DIV"
  /\ attributeIs(dom, result.node, "role", "heading")
  /\ attributeIs(dom, result.node, "aria-level", "3")
  /\ result.val = 3

\* A heading role with aria-level="-1", and one with aria-level="1.5", have level 0.
C15_MalformedLevelIsZero ==
  /\ result.fn = "level"
  /\ attributeIs(dom, result.node, "role", "heading")
  /\ \/ attributeIs(dom, result.node, "aria-level", "-1")
     \/ attributeIs(dom, result.node, "aria-level", "1.5")
  /\ dom[result.node].tag = "DIV"
  /\ result.val = 0

-----------------------------------------------------------------------------
(* Links *)

\* <a ..>text</a> and <area ..>text</area>
LinkDocs ==
  {<<With(El(tag, 0, <<2>>), Attrs(hr \cup ti \cup hi \cup ro)), Text(1, t)>> :
     tag \in {"A", "AREA"},
     hr \in {{}, {<<"href", <<"x">>>>}, {<<"href", <<>>>>}},
     ti \in {{}, {<<"title", <<"T">>>>}},
     hi \in {{}, {<<"aria-hidden", <<"true">>>>}},
     ro \in {{}, {<<"role", <<"button">>>>}},
     t \in {<<"Dashboard">>, <<>>, <<" ", "Dash", "\n", " ", "board">>}}

InitLink == \E d \in LinkDocs : InitWith(d)

NextLink ==
  \/ \E e \in Elems(dom) : CallGetAriaRole(e)
  \/ \E e \in Elems(dom), includeHidden \in BOOLEAN : getElementAccessibleName(e, includeHidden)

SpecLink == InitLink /\ [][NextLink]_vars

\* The element the call was about is an anchor or area without role attribute.
AnchorAsked ==
  /\ result.fn \in {"role", "name"}
  /\ dom[result.node].tag \in {"A", "AREA"}
  /\ ~hasAttribute(dom, result.node, "role")

\* C16: an anchor or area with the href attribute has the role link, one without
\* href has no role; an anchor with href that has content, is not hidden for
\* semantics (or is asked with hidden nodes included) is named by its content as
\* a flat string, so the anchor with the text "Dashboard" is the link named
\* "Dashboard".
C16_AnchorWithHrefIsLinkNamedByContent ==
  AnchorAsked =>
    /\ result.fn = "role" =>
         result.val = (IF hasAttribute(dom, result.node, "href") THEN "link" ELSE Null)
    /\ (/\ result.fn = "name"
        /\ dom[result.node].tag = "A"
        /\ hasAttribute(dom, result.node, "href")
        /\ result.ih \/ ~FreshHidden(dom, result.node)
        /\ normalizeAccessbileName(textContent(dom, result.node)) # <<>>)
         => result.val = normalizeAccessbileName(textContent(dom, result.node))

\* C16 witness: <a href="x">Dashboard</a>, whose role is link, has been named
\* "Dashboard".
C16_Witness ==
  /\ AnchorAsked
  /\ result.fn = "name"
  /\ dom[result.node].tag = "A"
  /\ hasAttribute(dom, result.node, "href")
  /\ textContent(dom, result.node) = <<"Dashboard">>
  /\ getAriaRole(dom, result.node) = "link"
  /\ result.val = <<"Dashboard">>

\* An anchor without href has been asked for its role and has none.
C16_NoHrefNoRole ==
  /\ AnchorAsked
  /\ result.fn = "role"
  /\ ~hasAttribute(dom, result.node, "href")
  /\ result.val = Null

-----------------------------------------------------------------------------
(* Visits of the worker within one computation *)

\* <div id=r><button id=t ..><span id=c ..>In</span></button><span id=x>Hello</span></div>
VisitDoc(tAttrs, cAttrs) ==
  <<With(Block("DIV", 0, <<2, 5>>), Attrs({<<"id", <<"r">>>>})),
    With(El("BUTTON", 1, <<3>>), tAttrs @@ Attrs({<<"id", <<"t">>>>})),
    With(El("SPAN", 2, <<4>>), cAttrs @@ Attrs({<<"id", <<"c">>>>})),
    Text(3, <<"In">>),
    With(El("SPAN", 1, <<6>>), Attrs({<<"id", <<"x">>>>})),
    Text(5, <<"Hello">>)>>

VisitDocs ==
  {VisitDoc(Attrs(tl \cup tw), Attrs(cl \cup ca)) :
     tl \in {{}} \cup {{<<"aria-labelledby", v>>} :
                        v \in {<<"t">>, <<"x">>, <<"t", " ", "x">>, <<"c", " ", "x">>}},
     tw \in {{}} \cup {{<<"aria-owns", v>>} : v \in {<<"c">>, <<"x">>}},
     cl \in {{}} \cup {{<<"aria-labelledby", v>>} : v \in {<<"x">>, <<"c">>, <<"c", " ", "x">>}},
     ca \in {{}, {<<"aria-label", <<"Own">>>>}}}

\* The traversal contexts a node is visited in: as the target, as a descendant
\* of the target, and as the element an aria-labelledby refers to
VisitOptions(includeHidden) ==
  {TopOptions(includeHidden),
   childOptions(TopOptions(includeHidden)),
   [TopOptions(includeHidden) EXCEPT !.embeddedInLabelledBy = "self",
                                     !.embeddedInTargetElement = "none"]}

\* The second of two visits to e, first being what the first visit gave
SecondVisit(d, e, o, fuel, first) ==
  getElementAccessibleNameInternal(d, e, o, first.v, first.h, fuel)

Visited(e, first, second) ==
  /\ result' = [fn |-> "visits", node |-> e, first |-> first.s, second |-> second.s,
                marked |-> e \in first.v]
  /\ UNCHANGED <<dom, cachesCounter, cacheAccessibleName, cacheAccessibleNameHidden,
                 cacheIsHidden, dirty, firstInScope, prevPass>>

\* Two visits to the element e within one top-level computation, which shares
\* one set visitedElements: visit(e) as a child and again as an aria-owns
\* reference, or through two references
VisitTwice(e, o1, o2) ==
  Visited(e,
          getElementAccessibleNameInternal(dom, e, o1, {}, cacheIsHidden, MaxDepth(dom)),
          SecondVisit(dom, e, o2, MaxDepth(dom),
                      getElementAccessibleNameInternal(dom, e, o1, {}, cacheIsHidden,
                                                       MaxDepth(dom))))

InitVisit == \E d \in VisitDocs : InitWith(d)

NextVisit ==
  \/ \E e \in Elems(dom), includeHidden \in BOOLEAN : getElementAccessibleName(e, includeHidden)
  \/ \E e \in Elems(dom), includeHidden \in BOOLEAN :
       \E o1 \in VisitOptions(includeHidden), o2 \in VisitOptions(includeHidden) :
         VisitTwice(e, o1, o2)

SpecVisit == InitVisit /\ [][NextVisit]_vars

\* C17: within one top-level name computation only the first visit to a node
\* can contribute text: every later visit to the same node returns the empty
\* string.
C17_LaterVisitReturnsEmpty ==
  result.fn = "visits" => result.second = <<>>

-----------------------------------------------------------------------------
(* Rules that produce no text *)

\* A visible button or input that has a non-blank aria-label and an
\* aria-labelledby with at least one reference, all of them to elements without
\* text, has been named.
LabelledByEmptyElementsNamed ==
  /\ result.fn = "name"
  /\ dom[result.node].tag \in {"BUTTON", "INPUT"}
  /\ ~FreshHidden(dom, result.node)
  /\ RoleOrEmpty(dom, result.node) \notin kNamingProhibitedRoles
  /\ getAriaLabelledByElements(dom, result.node) # <<>>
  /\ LabelledByYieldsNoText(dom, result.node)
  /\ Trim(getAttributeOrEmpty(dom, result.node, "aria-label")) # <<>>

\* A visible text input without aria-label and aria-labelledby, all of whose
\* labels have blank text, has been named.
BlankLabelsNamed ==
  /\ TextInputWithLabelsNamed
  /\ ~FreshHidden(dom, result.node)
  /\ \A l \in Range(dom[result.node].labels) : Trim(textContent(dom, l)) = <<>>

\* The name that title and placeholder give a text input
TitleOrPlaceholder(d, e) ==
  normalizeAccessbileName(IF getAttributeOrEmpty(d, e, "title") # <<>>
                          THEN getAttributeOrEmpty(d, e, "title")
                          ELSE getAttributeOrEmpty(d, e, "placeholder"))

\* C18: a rule of the worker that produces only an empty or whitespace-only
\* string does not end the computation: when every element that aria-labelledby
\* refers to (one or several) has an empty name, a non-blank aria-label is still
\* the name; and when every label of a text input has an empty name, the name
\* still comes from title or placeholder.
C18_EmptyRuleDoesNotEndComputation ==
  /\ LabelledByEmptyElementsNamed =>
       result.val = normalizeAccessbileName(getAttributeOrEmpty(dom, result.node, "aria-label"))
  /\ BlankLabelsNamed => result.val = TitleOrPlaceholder(dom, result.node)

-----------------------------------------------------------------------------
(* Id references *)

\* getIdRefs(element, element.getAttribute(attr)), as getAriaLabelledByElements
\* and step 2f (aria-owns) call it
CallGetIdRefs(e, attr) ==
  /\ result' = [fn |-> "idRefs", node |-> e, attr |-> attr,
                val |-> getIdRefs(dom, e, getAttributeOrEmpty(dom, e, attr))]
  /\ UNCHANGED <<dom, cachesCounter, cacheAccessibleName, cacheAccessibleNameHidden,
                 cacheIsHidden, dirty, firstInScope, prevPass>>

\* The longest id list of the documents
MaxIds == 3

IdLists == UNION {[1..n -> {"p", "q", "zz"}] : n \in 0..MaxIds}

\* The ids of the list separated by single spaces, and with spaces around them
Spaced(ids, wide) ==
  IF wide THEN <<" ">> \o Join([i \in DOMAIN ids |-> <<ids[i]>>], <<" ", " ">>) \o <<" ">>
  ELSE Join([i \in DOMAIN ids |-> <<ids[i]>>], <<" ">>)

\* <div><span id=p aria-labelledby=L aria-owns=L></span><span id=id3></span>
\*   #shadow-root: <span id=id4></span><span aria-labelledby=L aria-owns=L></span></div>
RefDoc(refs, id3, id4) ==
  <<[Block("DIV", 0, <<2, 3>>) EXCEPT !.hasShadow = TRUE, !.shadowKids = <<4, 5>>],
    With(El("SPAN", 1, <<>>), refs @@ Attrs({<<"id", <<"p">>>>})),
    With(El("SPAN", 1, <<>>), Attrs({<<"id", <<id3>>>>})),
    [With(El("SPAN", 1, <<>>), Attrs({<<"id", <<id4>>>>})) EXCEPT !.inShadow = TRUE],
    [With(El("SPAN", 1, <<>>), refs) EXCEPT !.inShadow = TRUE]>>

RefDocs ==
  {RefDoc(Attrs({<<"aria-labelledby", Spaced(ids, wide)>>, <<"aria-owns", Spaced(ids, wide)>>}),
          id3, id4) :
     ids \in IdLists, wide \in BOOLEAN, id3 \in {"p", "q"}, id4 \in {"p", "q"}}

InitRefs == \E d \in RefDocs : InitWith(d)

NextRefs ==
  \E e \in Elems(dom), attr \in {"aria-labelledby", "aria-owns"} : CallGetIdRefs(e, attr)

SpecRefs == InitRefs /\ [][NextRefs]_vars

\* The ids listed in the attribute attr of e, in listed order (each id of the
\* documents is one character of the model)
ListedIds(d, e, attr) == SelectSeq(getAttributeOrEmpty(d, e, attr), LAMBDA c : c # " ")

\* The first element, in document order, that has the id and lies in the tree
\* scope (shadow root or document) of e; 0 when there is none
Resolves(d, e, id) ==
  LET hits == {n \in Elems(d) : /\ attributeIs(d, n, "id", id)
                                /\ enclosingShadowRootOrDocument(d, n) =
                                     enclosingShadowRootOrDocument(d, e)}
  IN IF hits = {} THEN 0 ELSE CHOOSE n \in hits : \A m \in hits : n <= m

\* The first position in ids of an id that resolves to the element n
FirstPosition(d, e, ids, n) ==
  CHOOSE i \in DOMAIN ids : /\ Resolves(d, e, ids[i]) = n
                            /\ \A j \in 1..(i - 1) : Resolves(d, e, ids[j]) # n

\* C19: the id list of aria-labelledby or aria-owns is resolved in listed
\* order, each id looked up only in the referencing node's own shadow root or
\* document; an element named by repeated ids is kept once, at its first
\* position, and an id that matches no element there is skipped while the
\* remaining ids are still resolved.
C19_IdRefsInOrderWithinScope ==
  result.fn = "idRefs" =>
    LET ids == ListedIds(dom, result.node, result.attr)
        found == result.val
    IN /\ Range(found) = {Resolves(dom, result.node, ids[i]) : i \in DOMAIN ids} \ {0}
       /\ \A i, j \in DOMAIN found : i # j => found[i] # found[j]
       /\ \A i, j \in DOMAIN found :
            i < j => FirstPosition(dom, result.node, ids, found[i])
                       < FirstPosition(dom, result.node, ids, found[j])

\* C19 witness: the span inside the shadow root lists "q zz p q"-like ids: a
\* repeated id, an id that matches nothing and ids that also exist outside the
\* shadow root; the only element found is the one inside the shadow root.
C19_Witness ==
  /\ result.fn = "idRefs"
  /\ result.node = 5
  /\ \E i, j \in DOMAIN ListedIds(dom, 5, result.attr) :
       /\ i < j
       /\ ListedIds(dom, 5, result.attr)[i] = ListedIds(dom, 5, result.attr)[j]
       /\ Resolves(dom, 5, ListedIds(dom, 5, result.attr)[i]) = 4
  /\ "zz" \in Range(ListedIds(dom, 5, result.attr))
  /\ attributeIs(dom, 3, "id", dom[4].attrs["id"][1])
  /\ result.val = <<4>>

\* Two elements of the document found in listed order, not in document order:
\* "q p" gives the element with id q before the one with id p.
C19_ListedOrder ==
  /\ result.fn = "idRefs"
  /\ result.node = 2
  /\ ListedIds(dom, 2, result.attr) = <<"q", "p">>
  /\ result.val = <<3, 2>>

-----------------------------------------------------------------------------
(* Explicit roles *)

CallGetExplicitAriaRole(e) ==
  /\ result' = [fn |-> "explicitRole", node |-> e, val |-> getExplicitAriaRole(dom, e)]
  /\ UNCHANGED <<dom, cachesCounter, cacheAccessibleName, cacheAccessibleNameHidden,
                 cacheIsHidden, dirty, firstInScope, prevPass>>

\* The longest token list of a role attribute
MaxTokens == 3

\* Token lists of valid roles, an abstract role and an unknown word
TokenLists == UNION {[1..n -> {"button", "list", "widget", "foo"}] : n \in 0..MaxTokens}

\* What separates the tokens of a role attribute
Separators == {<<" ">>, <<"\t">>, <<"\n">>, <<" ", "\t">>, <<" ", " ">>}

\* <tag role="t1 t2 ..">, the tokens separated by sep, with and without sep
\* around the list
ExplicitRoleDocs ==
  {<<With(El(tag, 0, <<>>),
          Attrs({<<"role", (IF padded THEN sep ELSE <<>>)
                           \o Join([i \in DOMAIN ts |-> <<ts[i]>>], sep)
                           \o (IF padded THEN sep ELSE <<>>)>>}))>> :
     tag \in {"DIV", "LI"}, ts \in TokenLists, sep \in Separators, padded \in BOOLEAN}
  \cup {<<El(tag, 0, <<>>)>> : tag \in {"DIV", "LI"}}

InitExplicit == \E d \in ExplicitRoleDocs : InitWith(d)

NextExplicit ==
  \/ \E e \in Elems(dom) : CallGetExplicitAriaRole(e)
  \/ \E e \in Elems(dom) : CallGetAriaRole(e)

SpecExplicit == InitExplicit /\ [][NextExplicit]_vars

\* The whitespace-separated tokens of the role attribute of e that are valid
\* concrete roles, in listed order (each token of the documents is one
\* character of the model)
ValidTokens(d, e) ==
  SelectSeq(getAttributeOrEmpty(d, e, "role"), LAMBDA c : c \in allRoles \ abstractRoles)

\* C20: the explicit role of a node is the first whitespace-separated token of
\* its role attribute that is a valid concrete role, abstract and unknown tokens
\* being skipped; with no valid token there is no explicit role and getAriaRole
\* gives the implicit role.
C20_FirstValidTokenIsExplicitRole ==
  /\ result.fn = "explicitRole" =>
       result.val = (IF ValidTokens(dom, result.node) = <<>> THEN Null
                     ELSE ValidTokens(dom, result.node)[1])
  /\ (result.fn = "role" /\ ValidTokens(dom, result.node) = <<>>) =>
       result.val = getImplicitAriaRole(dom, result.node)

-----------------------------------------------------------------------------
(* The name engine over hidden nodes, aggregated content and embedded controls *)

\* node, made hidden for semantics in the way given
HiddenBy(node, how) ==
  CASE how = "display" -> [node EXCEPT !.display = "none"]
    [] how = "aria-hidden" -> With(node, Attrs({<<"aria-hidden", <<"true">>>>}))
    [] how = "visibility" -> [node EXCEPT !.visible = FALSE]
    [] OTHER -> node

HiddenHow == {"shown", "display", "aria-hidden", "visibility"}

\* <div><button id=t ..>A<span>B</span></button><span id=x>X<b>Y</b></span></div>
HiddenDoc(rootHow, tAttrs, bHow, xHow, yHow) ==
  <<HiddenBy(Block("DIV", 0, <<2, 6>>), rootHow),
    With(El("BUTTON", 1, <<3, 4>>), tAttrs @@ Attrs({<<"id", <<"t">>>>})),
    Text(2, <<"A">>),
    HiddenBy(El("SPAN", 2, <<5>>), bHow),
    Text(4, <<"B">>),
    With(HiddenBy(El("SPAN", 1, <<7, 8>>), xHow), Attrs({<<"id", <<"x">>>>})),
    Text(6, <<"X">>),
    HiddenBy(El("B", 6, <<9>>), yHow),
    Text(8, <<"Y">>)>>

HiddenDocs ==
  {HiddenDoc(rootHow, tAttrs, bHow, xHow, yHow) :
     rootHow \in {"shown", "aria-hidden"},
     tAttrs \in {Attrs({}), Attrs({<<"aria-labelledby", <<"x">>>>})},
     bHow \in HiddenHow, xHow \in HiddenHow, yHow \in HiddenHow}

\* <div><button>A<span>B</span> #shadow-root: <span><slot>F</slot></span></button>
\*   <span id=x>X</span><span id=y>Y</span></div>: the button with or without
\* ::before and ::after content, shadow root and aria-owns; its two children
\* each assigned to the slot or not. Without shadow root the span with the
\* slot is a sibling of the button.
AggregateDoc(before, after, shadow, slotA, slotB, owns) ==
  <<Block("DIV", 0, IF shadow THEN <<2, 9, 11>> ELSE <<2, 6, 9, 11>>),
    [With(El("BUTTON", 1, <<3, 4>>), owns) EXCEPT
       !.before = before, !.after = after,
       !.hasShadow = shadow, !.shadowKids = IF shadow THEN <<6>> ELSE <<>>],
    [Text(2, <<"A">>) EXCEPT !.slot = IF shadow /\ slotA THEN 7 ELSE 0],
    [El("SPAN", 2, <<5>>) EXCEPT !.slot = IF shadow /\ slotB THEN 7 ELSE 0],
    Text(4, <<"B">>),
    IF shadow THEN [El("SPAN", 2, <<7>>) EXCEPT !.inShadow = TRUE] ELSE El("SPAN", 1, <<7>>),
    [El("SLOT", 6, <<8>>) EXCEPT !.display = "contents"],
    Text(7, <<"F">>),
    With(El("SPAN", 1, <<10>>), Attrs({<<"id", <<"x">>>>})),
    Text(9, <<"X">>),
    With(El("SPAN", 1, <<12>>), Attrs({<<"id", <<"y">>>>})),
    Text(11, <<"Y">>)>>

AggregateDocs ==
  {d \in {AggregateDoc(before, after, shadow, slotA, slotB, owns) :
            before \in {<<>>, <<"'", "b", "'">>},
            after \in {<<>>, <<"'", "a", "'">>},
            shadow \in BOOLEAN, slotA \in BOOLEAN, slotB \in BOOLEAN,
            owns \in {Attrs({}), Attrs({<<"aria-owns", <<"x">>>>}),
                      Attrs({<<"aria-owns", <<"x", " ", "y">>>>}),
                      Attrs({<<"aria-owns", <<"y", " ", "x">>>>})}} :
     WellFormed(d)}

\* The form controls embedded in a label: node 5 and its children
TextboxControls ==
  {<<[With(El(tag, 3, <<>>), as) EXCEPT !.value = val]>> :
     tag \in {"INPUT", "TEXTAREA"}, val \in {<<>>, <<"v">>},
     as \in {Attrs({}), Attrs({<<"aria-label", <<"L">>>>})}}
  \cup {<<With(El("DIV", 3, <<6>>), Attrs({<<"role", <<"textbox">>>>})), Text(5, <<"c">>)>>}

SelectControls ==
  {<<With(El("SELECT", 3, <<6, 8>>),
          IF s1 /\ s2 THEN Attrs({<<"multiple", <<>>>>}) ELSE Attrs({})),
     [El("OPTION", 5, <<7>>) EXCEPT !.selected = s1], Text(6, <<"o1">>),
     [El("OPTION", 5, <<9>>) EXCEPT !.selected = s2], Text(8, <<"o2">>)>> :
     s1 \in BOOLEAN, s2 \in BOOLEAN}
  \cup {<<El("SELECT", 3, <<>>)>>}

RangeRoles == {"progressbar", "scrollbar", "slider", "spinbutton", "meter"}

RangeControls ==
  {<<With(El("DIV", 3, <<6>>), Attrs({<<"role", <<role>>>>} \cup vt \cup vn \cup va)),
     Text(5, <<"c">>)>> :
     role \in RangeRoles,
     vt \in {{}, {<<"aria-valuetext", <<"vt">>>>}},
     vn \in {{}, {<<"aria-valuenow", <<"5">>>>}},
     va \in {{}, {<<"value", <<"7">>>>}}}

MenuControls ==
  {<<With(El("DIV", 3, <<6>>), Attrs({<<"role", <<"menu">>>>})), Text(5, <<"c">>)>>}

EmbeddedControls == TextboxControls \cup SelectControls \cup RangeControls \cup MenuControls

\* <div><input><label for the input id=l>T<control/></label></div>, or a button
\* with aria-labelledby=l in place of the input
EmbeddedDoc(byLabel, control) ==
  <<Block("DIV", 0, <<2, 3>>),
    IF byLabel THEN [El("INPUT", 1, <<>>) EXCEPT !.labels = <<3>>]
    ELSE With(El("BUTTON", 1, <<>>), Attrs({<<"aria-labelledby", <<"l">>>>})),
    With(El("LABEL", 1, <<4, 5>>), Attrs({<<"id", <<"l">>>>})),
    Text(3, <<"T">>)>> \o control

EmbeddedDocs ==
  {EmbeddedDoc(byLabel, control) : byLabel \in BOOLEAN, control \in EmbeddedControls}

\* <div><input type=submit|reset|button value=.. title=..></div>
InputButtonDocs ==
  {<<Block("DIV", 0, <<2>>),
     [With(El("INPUT", 1, <<>>), ti) EXCEPT !.type = type, !.value = value]>> :
     type \in {"submit", "reset", "button"},
     value \in {<<>>, <<" ">>, <<"Go">>},
     ti \in {Attrs({}), Attrs({<<"title", <<"T">>>>})}}

EngineDocs == HiddenDocs \cup AggregateDocs \cup EmbeddedDocs \cup InputButtonDocs

InitEngine == \E d \in EngineDocs : InitWith(d)

NextEngine ==
  \E e \in Elems(dom), includeHidden \in BOOLEAN : getElementAccessibleName(e, includeHidden)

SpecEngine == InitEngine /\ [][NextEngine]_vars

\* The words of the text nodes directly contained in the element n
OwnWords(d, n) ==
  UNION {Range(d[k].data) : k \in {c \in Range(d[n].kids) : d[c].kind = "text"}}

\* The element n is referred to by an aria-labelledby attribute.
IsLabelledByTarget(d, n) ==
  \E e \in Elems(d) : n \in Range(getAriaLabelledByElements(d, e))

\* d, with nothing hidden
Unhidden(d) ==
  [n \in DOMAIN d |->
     [d[n] EXCEPT !.display = IF @ = "none" THEN "inline" ELSE @,
                  !.visible = TRUE,
                  !.attrs = [a \in DOMAIN @ \ {"aria-hidden"} |-> @[a]]]]

\* The words of a string, without the whitespace between them
WordsOf(str) == SelectSeq(str, LAMBDA c : ~IsWs(c))

\* A name has been computed on one of the documents with hidden nodes.
HiddenDocNamed == result.fn = "name" /\ Len(dom) = 9 /\ dom[8].tag = "B"

\* C21: with includeHidden = false, the text of an element that is hidden for
\* semantics is in no name, unless the element is itself the direct target of an
\* aria-labelledby reference: the text of a hidden reference target is in the
\* name of the visible button that refers to it, the text of its hidden
\* descendants is not. With includeHidden = true the name has the words it has
\* in the same tree with nothing hidden.
C21_HiddenNodesContributeNothing ==
  HiddenDocNamed =>
    /\ ~result.ih =>
         \A n \in Elems(dom) :
           (FreshHidden(dom, n) /\ ~IsLabelledByTarget(dom, n))
             => OwnWords(dom, n) \cap Range(result.val) = {}
    /\ (/\ ~result.ih
        /\ result.node = 2
        /\ ~FreshHidden(dom, 2)
        /\ IsLabelledByTarget(dom, 6)) => "X" \in Range(result.val)
    /\ result.ih =>
         WordsOf(result.val) = WordsOf(FreshName(Unhidden(dom), result.node, TRUE))

\* C21 witness: the button refers to a display:none element with text X and a
\* child with text Y; with includeHidden = false the button is named "X".
C21_Witness ==
  /\ HiddenDocNamed
  /\ ~result.ih
  /\ result.node = 2
  /\ IsLabelledByTarget(dom, 6)
  /\ dom[6].display = "none"
  /\ dom[8].display # "none" /\ dom[8].visible
  /\ result.val = <<"X">>

\* With includeHidden = true the same button is named "XY".
C21_IncludeHidden ==
  /\ HiddenDocNamed
  /\ result.ih
  /\ result.node = 2
  /\ IsLabelledByTarget(dom, 6)
  /\ dom[6].display = "none"
  /\ WordsOf(result.val) = <<"X", "Y">>

-----------------------------------------------------------------------------
(* The visibility classifier over a family of trees *)

\* <div><e2>t<e3></e3></e2></div>: e2 rendered as a box or display:contents,
\* e3 an element, a metadata element or a childless display:contents element
ChainTree(rootHow, contents, how2, tag3, how3, textVisible) ==
  <<HiddenBy(Block("DIV", 0, <<2>>), rootHow),
    [HiddenBy(El("SPAN", 1, <<3, 4>>), how2) EXCEPT
       !.display = IF contents THEN "contents" ELSE @],
    [Text(2, <<"t">>) EXCEPT !.visible = textVisible],
    IF how3 = "contents" THEN [El(tag3, 2, <<>>) EXCEPT !.display = "contents"]
    ELSE HiddenBy(El(tag3, 2, <<>>), how3)>>

\* A text node below a display:none root has no box, so it is never visible.
ChainTrees ==
  {d \in {ChainTree(rootHow, contents, how2, tag3, how3, textVisible) :
            rootHow \in {"shown", "display", "aria-hidden"},
            contents \in BOOLEAN,
            how2 \in {"shown", "aria-hidden", "visibility"},
            tag3 \in {"SPAN", "SCRIPT"},
            how3 \in HiddenHow \cup {"contents"},
            textVisible \in BOOLEAN} :
     d[1].display = "none" => ~d[3].visible}

\* <div>#shadow-root: <div><slot></slot></div> / <span slot>a</span><span>b</span></div>:
\* the first light child is assigned to the slot, the second is not
ShadowTree(hostHow, innerHow, slotVisible, how2) ==
  <<[HiddenBy(Block("DIV", 0, <<2, 3>>), hostHow) EXCEPT
       !.hasShadow = TRUE, !.shadowKids = <<4>>],
    [HiddenBy(El("SPAN", 1, <<>>), how2) EXCEPT !.slot = 5],
    El("SPAN", 1, <<>>),
    [HiddenBy(Block("DIV", 1, <<5>>), innerHow) EXCEPT !.inShadow = TRUE],
    [El("SLOT", 4, <<>>) EXCEPT !.display = "contents", !.visible = slotVisible]>>

ShadowTrees ==
  {ShadowTree(hostHow, innerHow, slotVisible, how2) :
     hostHow \in {"shown", "aria-hidden"}, innerHow \in {"shown", "display"},
     slotVisible \in BOOLEAN, how2 \in HiddenHow}

\* <select><option></option></select>, and the option inside a div instead
OptionTrees ==
  {<<HiddenBy(El(tag, 0, <<2>>), how1), [El("OPTION", 1, <<>>) EXCEPT !.visible = visible]>> :
     tag \in {"SELECT", "DIV"}, how1 \in {"shown", "display", "aria-hidden", "visibility"},
     visible \in BOOLEAN}

HiddenTrees == ChainTrees \cup ShadowTrees \cup OptionTrees

InitTree == \E d \in HiddenTrees : InitWith(d)

NextTree ==
  \/ beginAriaCaches
  \/ endAriaCaches
  \/ \E e \in Elems(dom) : CallIsElementHiddenForAria(e)

SpecTree == InitTree /\ [][NextTree]_vars

\* The hidden conditions of one node: computed display none, aria-hidden true,
\* or a light-tree child of a shadow host that is assigned to no slot
HiddenCondition(d, a) ==
  \/ d[a].display = "none"
  \/ attributeIs(d, a, "aria-hidden", "true")
  \/ (parentElement(d, a) # 0 /\ d[parentElement(d, a)].hasShadow /\ d[a].slot = 0)

\* Some node from e up to the root, through parents and shadow hosts, has a
\* hidden condition.
HiddenOnChain(d, e) == \E a \in Range(ChainCrossShadow(d, e)) : HiddenCondition(d, a)

OptionInsideSelect(d, e) ==
  d[e].tag = "OPTION" /\ \E a \in Range(ChainLight(d, e)) : d[a].tag = "SELECT"

\* isElementHiddenForAria has answered for the element result.node.
HiddenAsked == result.fn = "hidden"

\* C22: an element whose display is not contents is hidden for semantics
\* whenever a node on its chain up to the root (parents and shadow hosts) has
\* display none, aria-hidden true, or is a light-tree child of a shadow host
\* without slot; and such an element, unless it is an option inside a select or
\* a slot, is hidden when its visibility style is not visible, even when no node
\* of the chain has one of these conditions.
C22_HiddenByChainOrVisibility ==
  (HiddenAsked /\ dom[result.node].display # "contents") =>
    /\ HiddenOnChain(dom, result.node) => result.val = TRUE
    /\ (/\ ~dom[result.node].visible
        /\ ~OptionInsideSelect(dom, result.node)
        /\ dom[result.node].tag # "SLOT") => result.val = TRUE

\* C22 witness: the light-tree child of a shadow host that is assigned to no
\* slot, with no other condition on its chain, is hidden.
C22_Witness ==
  /\ HiddenAsked
  /\ dom[result.node].display # "contents"
  /\ dom[result.node].parent # 0 /\ ~dom[result.node].inShadow
  /\ dom[result.node].slot = 0 /\ dom[dom[result.node].parent].hasShadow
  /\ \A a \in Range(ChainCrossShadow(dom, result.node)) :
       dom[a].display # "none" /\ ~hasAttribute(dom, a, "aria-hidden")
  /\ result.val = TRUE

\* An element with visibility not visible and no hidden condition on its chain
\* is hidden; an option inside a select in the same situation is not.
C22_VisibilityAlone ==
  /\ HiddenAsked
  /\ ~dom[result.node].visible
  /\ ~HiddenOnChain(dom, result.node)
  /\ dom[result.node].tag = "SPAN"
  /\ dom[result.node].display # "contents"
  /\ result.val = TRUE

C22_OptionInsideSelect ==
  /\ HiddenAsked
  /\ ~dom[result.node].visible
  /\ OptionInsideSelect(dom, result.node)
  /\ result.val = FALSE

\* The elements and the text nodes directly contained in e
ChildElements(d, e) == {k \in Range(d[e].kids) : d[k].kind = "elem"}
ChildTexts(d, e) == {k \in Range(d[e].kids) : d[k].kind = "text"}

\* isElementHiddenForAria has answered for a rendered-as-contents element that
\* is neither a slot nor a metadata element.
ContentsAsked ==
  /\ HiddenAsked
  /\ dom[result.node].display = "contents"
  /\ dom[result.node].tag \notin {"SLOT", "STYLE", "SCRIPT", "NOSCRIPT", "TEMPLATE"}

\* C23: a display:contents element that is not a slot is hidden for semantics
\* exactly when every child element is hidden for semantics and every directly
\* contained text node is not visible; with no children it is hidden, and one
\* visible child element or text node makes it not hidden.
C23_ContentsHiddenIffAllChildrenHidden ==
  ContentsAsked =>
    (result.val = TRUE <=>
       /\ \A k \in ChildElements(dom, result.node) : FreshHidden(dom, k)
       /\ \A k \in ChildTexts(dom, result.node) : ~dom[k].visible)

\* C23 witness: a display:contents element whose child element is hidden while
\* its text node is visible is not hidden.
C23_Witness ==
  /\ ContentsAsked
  /\ \E k \in ChildElements(dom, result.node) : FreshHidden(dom, k)
  /\ \A k \in ChildElements(dom, result.node) : FreshHidden(dom, k)
  /\ \E k \in ChildTexts(dom, result.node) : dom[k].visible
  /\ result.val = FALSE

\* A display:contents element without children is hidden.
C23_NoChildren ==
  /\ ContentsAsked
  /\ dom[result.node].kids = <<>>
  /\ ~HiddenOnChain(dom, result.node)
  /\ result.val = TRUE

\* A display:contents element whose text is not visible and whose only child
\* element is hidden is hidden, with no hidden condition on its own chain.
C23_AllChildrenHidden ==
  /\ ContentsAsked
  /\ ChildElements(dom, result.node) # {} /\ ChildTexts(dom, result.node) # {}
  /\ ~HiddenOnChain(dom, result.node)
  /\ result.val = TRUE

\* C30: every element that has aria-hidden="true" on itself or on an ancestor
\* (through parents and shadow hosts) is hidden for semantics, a display:contents
\* element that directly contains visible text included.
C30_AriaHiddenAlwaysHides ==
  (/\ HiddenAsked
   /\ \E a \in Range(ChainCrossShadow(dom, result.node)) :
        attributeIs(dom, a, "aria-hidden", "true"))
    => result.val = TRUE

\* An element with aria-hidden="true" that is rendered as a box is hidden.
C30_BoxWithAriaHidden ==
  /\ HiddenAsked
  /\ attributeIs(dom, result.node, "aria-hidden", "true")
  /\ dom[result.node].display # "contents"
  /\ result.val = TRUE

\* The entries of cacheIsHidden: the nodes that have one
Memoized == {n \in DOMAIN dom : cacheIsHidden.on /\ cacheIsHidden.map[n] # <<>>}

\* C24: inside an open scope, on an unchanged tree, isElementHiddenForAria
\* answers for every node what it answers without any cache, whatever was asked
\* earlier in the scope; and every entry of cacheIsHidden equals the disjunction
\* of the hidden conditions of the node and of its ancestors.
C24_MemoizedHiddenEqualsUncached ==
  /\ (HiddenAsked /\ cachesCounter > 0) => result.val = FreshHidden(dom, result.node)
  /\ \A n \in Memoized : cacheIsHidden.map[n][1] = HiddenOnChain(dom, n)

\* C24 witness: in an open scope an answer was taken from an entry written by
\* an earlier query on a descendant: the node asked is hidden through an
\* ancestor and its parent, node and child all have entries.
C24_Witness ==
  /\ HiddenAsked /\ cachesCounter > 0
  /\ result.val = TRUE
  /\ ~HiddenCondition(dom, result.node)
  /\ result.node \in Memoized
  /\ \E k \in Memoized : dom[k].parent = result.node
  /\ \E a \in Memoized : dom[result.node].parent = a /\ cacheIsHidden.map[a][1] = TRUE

\* The name of the button of one of the documents with aggregated content has
\* been computed.
AggregateNamed == result.fn = "name" /\ Len(dom) = 12 /\ result.node = 2

\* The text of the button's own children that are not assigned to the slot:
\* the span child without slot is not rendered below a shadow host, hence hidden
ChildrenPart ==
  (IF dom[3].slot = 0 THEN <<"A">> ELSE <<>>)
  \o (IF dom[4].slot = 0 /\ (result.ih \/ ~dom[2].hasShadow) THEN <<"B">> ELSE <<>>)

\* The text of the shadow tree: the nodes assigned to the slot, in document
\* order, or the slot's own content when nothing is assigned
ShadowPart ==
  IF ~dom[2].hasShadow THEN <<>>
  ELSE IF dom[3].slot = 0 /\ dom[4].slot = 0 THEN <<"F">>
  ELSE (IF dom[3].slot # 0 THEN <<"A">> ELSE <<>>)
       \o (IF dom[4].slot # 0 THEN <<"B">> ELSE <<>>)

\* The text of the elements listed in aria-owns, in the listed order
OwnedPart ==
  IF ~hasAttribute(dom, 2, "aria-owns") THEN <<>>
  ELSE [i \in DOMAIN WordsOf(dom[2].attrs["aria-owns"]) |->
          IF WordsOf(dom[2].attrs["aria-owns"])[i] = "x" THEN "X" ELSE "Y"]

PseudoPart(content) == IF content = <<>> THEN <<>> ELSE <<content[2]>>

\* C25: the aggregated content of a node is, in this order, its ::before
\* content, the contribution of each child in document order without the
\* children assigned to a slot, the children of its shadow root, the nodes its
\* aria-owns lists in the listed order, and its ::after content; a slot with
\* assigned nodes contributes these in order instead of its own children.
\* (The slot, whose display is contents, is joined with spaces around it.)
C25_AggregationOrder ==
  AggregateNamed =>
    WordsOf(result.val) = PseudoPart(dom[2].before) \o ChildrenPart \o ShadowPart \o OwnedPart
                 \o PseudoPart(dom[2].after)

\* C25 witness: every part is present: the button has ::before and ::after
\* content, a child of its own, a child shown through the slot of its shadow
\* tree, and two owned elements listed in reverse document order.
C25_Witness ==
  /\ AggregateNamed
  /\ dom[2].hasShadow /\ dom[3].slot = 0 /\ dom[4].slot # 0
  /\ WordsOf(result.val) = <<"b", "A", "B", "Y", "X", "a">>

\* The slot without assigned nodes contributes its own content.
C25_SlotFallback ==
  /\ AggregateNamed
  /\ ~result.ih
  /\ result.val = <<"A", " ", "F">>

\* The name of the element that refers to the label with an embedded control
\* has been computed.
EmbeddedNamed ==
  /\ result.fn = "name" /\ result.node = 2
  /\ Len(dom) >= 5 /\ dom[3].tag = "LABEL"

\* The text of the options of the select 5, selected or not
OptionTexts(selectedOnly) ==
  (IF Len(dom) >= 7 /\ (dom[6].selected \/ ~selectedOnly) THEN dom[7].data ELSE <<>>)
  \o (IF Len(dom) >= 9 /\ (dom[8].selected \/ ~selectedOnly) THEN dom[9].data ELSE <<>>)

\* What the embedded control 5 stands for, by its tag and role attribute
ValueOfControl ==
  LET role == IF hasAttribute(dom, 5, "role") THEN dom[5].attrs["role"][1] ELSE ""
  IN CASE dom[5].tag \in {"INPUT", "TEXTAREA"} -> dom[5].value
       [] role = "textbox" -> dom[6].data
       [] dom[5].tag = "SELECT" ->
            IF OptionTexts(TRUE) # <<>> THEN OptionTexts(TRUE)
            ELSE IF Len(dom) >= 7 THEN dom[7].data ELSE <<>>
       [] role \in RangeRoles ->
            IF hasAttribute(dom, 5, "aria-valuetext") THEN dom[5].attrs["aria-valuetext"]
            ELSE IF hasAttribute(dom, 5, "aria-valuenow") THEN dom[5].attrs["aria-valuenow"]
            ELSE IF hasAttribute(dom, 5, "value") THEN dom[5].attrs["value"]
            ELSE <<>>
       [] OTHER -> <<>>

\* C26: while a label or an aria-labelledby reference is expanded, an embedded
\* form control that is not the referring element stands for its value, not for
\* its content or its own label: a textbox for its value or text, a native
\* select for its selected options or, with options and none selected, for the
\* first, a progressbar, scrollbar, slider, spinbutton or meter for
\* aria-valuetext, else aria-valuenow, else the value attribute, a menu for
\* nothing.
C26_EmbeddedControlContributesValue ==
  EmbeddedNamed => WordsOf(result.val) = <<"T">> \o ValueOfControl

\* C26 witness: a select with two options, none selected, embedded in the
\* label of another input stands for its first option.
C26_Witness ==
  /\ EmbeddedNamed
  /\ dom[2].tag = "INPUT"
  /\ dom[5].tag = "SELECT" /\ Len(dom) = 9
  /\ ~dom[6].selected /\ ~dom[8].selected
  /\ WordsOf(result.val) = <<"T", "o1">>

\* A slider with content, aria-valuenow and a value attribute stands for its
\* aria-valuenow; an input with an aria-label stands for its value.
C26_ValueNow ==
  /\ EmbeddedNamed
  /\ hasAttribute(dom, 5, "value") /\ ~hasAttribute(dom, 5, "aria-valuetext")
  /\ WordsOf(result.val) = <<"T", "5">>

C26_ValueNotLabel ==
  /\ EmbeddedNamed
  /\ hasAttribute(dom, 5, "aria-label")
  /\ WordsOf(result.val) = <<"T", "v">>

\* The name of an input of type submit, reset or button has been computed.
InputButtonNamed ==
  /\ result.fn = "name" /\ result.node = 2 /\ Len(dom) = 2
  /\ dom[2].tag = "INPUT" /\ dom[2].type \in {"submit", "reset", "button"}

\* C27: an input of type submit, reset or button without aria-label is named
\* by its value when that is not blank, otherwise by its title attribute when
\* it has one, and by "Submit" or "Reset" only when it has neither.
C27_ValueThenTitleThenDefault ==
  InputButtonNamed =>
    result.val =
      IF Trim(dom[2].value) # <<>> THEN dom[2].value
      ELSE IF hasAttribute(dom, 2, "title") THEN dom[2].attrs["title"]
      ELSE IF dom[2].type = "submit" THEN <<"Submit">>
      ELSE IF dom[2].type = "reset" THEN <<"Reset">>
      ELSE <<>>

\* An input of type button without value is named by its title.
C27_ButtonNamedByTitle ==
  /\ InputButtonNamed
  /\ dom[2].type = "button" /\ Trim(dom[2].value) = <<>>
  /\ result.val = <<"T">>

-----------------------------------------------------------------------------
(* Scopes closed more often than opened *)

\* endAriaCaches() called while no scope is open: the counter is decremented
\* below zero, !--cachesCounter is false and the caches are left as they are.
endAriaCachesUnmatched ==
  /\ cachesCounter <= 0
  /\ cachesCounter > -MaxScopes
  /\ cachesCounter' = cachesCounter - 1
  /\ IF DropsCaches(cachesCounter')
     THEN /\ cacheAccessibleName' = UndefinedCache(dom)
          /\ cacheAccessibleNameHidden' = UndefinedCache(dom)
          /\ cacheIsHidden' = UndefinedCache(dom)
     ELSE UNCHANGED <<cacheAccessibleName, cacheAccessibleNameHidden, cacheIsHidden>>
  /\ result' = NoResult
  /\ UNCHANGED <<dom, dirty, firstInScope, prevPass>>

NextUnmatched ==
  \/ beginAriaCaches
  \/ endAriaCaches
  \/ endAriaCachesUnmatched
  \/ \E e \in Elems(dom), includeHidden \in BOOLEAN : getElementAccessibleName(e, includeHidden)

SpecUnmatched == Init /\ [][NextUnmatched]_vars

\* C28: the count of open scopes is never negative: endAriaCaches called with
\* no scope open leaves it at zero and the caches absent, so that a later pair
\* of beginAriaCaches and endAriaCaches creates the caches and drops them again:
\* whenever the count is zero or less the caches are absent.
C28_CountNeverNegative ==
  /\ cachesCounter >= 0
  /\ cachesCounter <= 0 =>
       ~cacheAccessibleName.on /\ ~cacheAccessibleNameHidden.on /\ ~cacheIsHidden.on

\* After an unmatched endAriaCaches and a later pair of beginAriaCaches and
\* endAriaCaches the caches are still there, with a name in them.
C28_CachesLeftAfterPair ==
  /\ cachesCounter < 0
  /\ cacheAccessibleName.on
  /\ \E n \in DOMAIN dom : cacheAccessibleName.map[n] # <<>>

-----------------------------------------------------------------------------
(* The two name caches *)

\* The entries of a name cache are what the tree gives for includeHidden.
EntriesComputedWith(cache, includeHidden) ==
  \A n \in Elems(dom) :
    (cache.on /\ cache.map[n] # <<>>) => cache.map[n] = <<FreshName(dom, n, includeHidden)>>

\* C29: within one scope the names for includeHidden = true and for
\* includeHidden = false are cached separately: on a tree that has not changed
\* since the scope was opened, a call returns the string computed with its own
\* value of includeHidden, and each cache holds only strings computed with its
\* value, whatever the order of the calls.
C29_NamesCachedPerIncludeHidden ==
  (cachesCounter > 0 /\ dirty = 0) =>
    /\ result.fn = "name" => result.val = FreshName(dom, result.node, result.ih)
    /\ EntriesComputedWith(cacheAccessibleName, FALSE)
    /\ EntriesComputedWith(cacheAccessibleNameHidden, TRUE)

\* C29 witness: in one scope the button below an aria-hidden root was named
\* with includeHidden = true first ("Click me", cached) and then with
\* includeHidden = false, which returned the empty name.
C29_Witness ==
  /\ cachesCounter > 0 /\ dirty = 0
  /\ result.fn = "name" /\ result.node = 2 /\ ~result.ih
  /\ result.val = <<>>
  /\ cacheAccessibleNameHidden.map[2] = <<<<"Click", " ", "me">>>>
  /\ cacheAccessibleName.map[2] = <<<<>>>>

=============================================================================
